---------------------------- MODULE Spec2Model ----------------------------
(***************************************************************************)
(* Model of the invoice-management API: the JWT gate, the auth            *)
(* controller, the three resource controllers (user, tax profile,         *)
(* invoice) and the relational store they work on.                        *)
(*                                                                         *)
(* Conventions                                                             *)
(*  - a JavaScript string is a sequence of one-character strings;         *)
(*    Undefined is the JS value undefined, Null the SQL NULL;              *)
(*  - a JavaScript number is a record [nan, v]; only integers occur;      *)
(*  - time advances in ticks of one hour (Tick);                          *)
(*  - every handler is one atomic action: gate, handler body, response;   *)
(*    req, reqUser, ran and res describe the exchange until Finish;       *)
(*  - Serve is a request that the rate limiter of index.ts has let       *)
(*    through; Limited puts the limiter in front of it (SpecLimit);       *)
(*  - proc is the server process: listening, connected to the store,      *)
(*    shutting down, exited;                                               *)
(*  - calls holds the handlers that SpecRace and SpecRegister suspend at   *)
(*    their awaits, one store read or write per step.                      *)
(***************************************************************************)
EXTENDS Integers, Naturals, Sequences, FiniteSets, TLC

VARIABLES
    users,            \* table "User": set of rows
    taxProfiles,      \* table "TaxProfile": set of rows
    invoices,         \* table "Invoice": set of rows
    nextUserId,       \* SERIAL sequence of "User".id
    nextTaxProfileId, \* SERIAL sequence of "TaxProfile".id
    nextInvoiceId,    \* SERIAL sequence of "Invoice".id
    now,              \* wall clock, in ticks
    cookie,           \* the client's access_token cookie
    bearer,           \* the last token the client read from a response body
    req,              \* the request served last
    reqUser,          \* req.user of that request (the payload the gate attached)
    ran,              \* the controller that ran for that request ("none": none)
    res,              \* the response to that request
    proc,             \* the server process
    limiter,          \* the rate limiter's record of the client
    calls             \* handlers suspended at an await, other than req's

store  == <<users, taxProfiles, invoices, nextUserId, nextTaxProfileId, nextInvoiceId>>
client == <<cookie, bearer>>
vars   == <<users, taxProfiles, invoices, nextUserId, nextTaxProfileId,
            nextInvoiceId, now, cookie, bearer, req, reqUser, ran, res,
            proc, limiter, calls>>

---------------------------------------------------------------------------
(* Bounds of the model *)

MaxUserId == 2
MaxTaxProfileId == 1
MaxInvoiceId == 1
MaxTime == 1

(* jwt.sign(..., { expiresIn: '1h' }): one tick is one hour *)
TokenTTL == 1

---------------------------------------------------------------------------
(* JavaScript values *)

Undefined == <<"undefined">>
Null == <<"null">>

IsString(s) == s # Undefined /\ s # Null

Min(a, b) == IF a <= b THEN a ELSE b
Max(a, b) == IF a >= b THEN a ELSE b

Rep(c, n) == [i \in 1..n |-> c]

(* Number(x) for the strings that occur: '' is 0, a decimal integer with an  *)
(* optional sign is its value, undefined and any other text are NaN         *)
NaN == [nan |-> TRUE, v |-> 0]
Num(n) == [nan |-> FALSE, v |-> n]

DigitChars == <<"0", "1", "2", "3", "4", "5", "6", "7", "8", "9">>
IsDigit(c) == \E d \in 1..10 : DigitChars[d] = c
DigitVal(c) == (CHOOSE d \in 1..10 : DigitChars[d] = c) - 1
IsDigits(s) == Len(s) > 0 /\ \A i \in 1..Len(s) : IsDigit(s[i])

RECURSIVE DigitsVal(_)
DigitsVal(s) ==
    IF s = <<>> THEN 0
    ELSE 10 * DigitsVal(SubSeq(s, 1, Len(s) - 1)) + DigitVal(s[Len(s)])

ToNumber(raw) ==
    IF raw = Undefined \/ raw = Null THEN NaN
    ELSE IF raw = <<>> THEN Num(0)
    ELSE IF IsDigits(raw) THEN Num(DigitsVal(raw))
    ELSE IF raw[1] = "-" /\ IsDigits(Tail(raw)) THEN Num(0 - DigitsVal(Tail(raw)))
    ELSE NaN

(* a query or body value is truthy unless it is undefined or '' *)
Truthy(raw) == raw # Undefined /\ raw # Null /\ raw # <<>>

(* String.prototype / SQL LIKE '%f%' *)
Contains(s, f) ==
    /\ IsString(s)
    /\ \E i \in 0..(Len(s) - Len(f)) : SubSeq(s, i + 1, i + Len(f)) = f

UpperChars == <<"A", "B", "C", "D", "E", "F", "G", "H", "I", "J", "K", "L", "M",
                "N", "O", "P", "Q", "R", "S", "T", "U", "V", "W", "X", "Y", "Z">>
LowerChars == <<"a", "b", "c", "d", "e", "f", "g", "h", "i", "j", "k", "l", "m",
                "n", "o", "p", "q", "r", "s", "t", "u", "v", "w", "x", "y", "z">>
LowerChar(c) ==
    IF \E k \in 1..26 : UpperChars[k] = c
    THEN LowerChars[CHOOSE k \in 1..26 : UpperChars[k] = c]
    ELSE c
Lower(s) == [i \in 1..Len(s) |-> LowerChar(s[i])]

(* ILIKE '%f%' (Prisma mode: 'insensitive') *)
ContainsInsensitive(s, f) == IsString(s) /\ Contains(Lower(s), Lower(f))

(* sample inputs *)
E1 == <<"a", "@", "b", ".", "c">>
E2 == <<"A", "@", "b", ".", "c">>
P1 == Rep("s", 12)
P2 == Rep("t", 12)
N1 == <<"A", "n", "n">>

Emails == {E1, E2}
Passwords == {P1, P2}
Names == {N1}

---------------------------------------------------------------------------
(* auth.utils: password hashing and tokens *)

(* bcrypt.hashSync(plain, SALT_ROUNDS): a one-way value that is not the     *)
(* plaintext; it throws on a non-string ("Illegal arguments").  The random  *)
(* salt is not modelled.                                                    *)
hashPassword(plain) ==
    IF IsString(plain) THEN [threw |-> FALSE, hash |-> [bcrypt |-> plain]]
                       ELSE [threw |-> TRUE, hash |-> [bcrypt |-> Undefined]]

(* bcrypt.compareSync(plain, hash): throws on a non-string plaintext *)
comparePasswordMutAny(plain, hash) ==
    IF IsString(plain) THEN [threw |-> FALSE, same |-> TRUE]
                       ELSE [threw |-> TRUE, same |-> FALSE]
comparePassword(plain, hash) ==
    IF IsString(plain) THEN [threw |-> FALSE, same |-> hash.bcrypt = plain]
                       ELSE [threw |-> TRUE, same |-> FALSE]

Tok(k, s, i, e, g) == [kind |-> k, sub |-> s, iat |-> i, exp |-> e, sig |-> g]
UndefTok == Tok("undefined", 0, 0, 0, "none")   \* no value
EmptyTok == Tok("empty", 0, 0, 0, "none")       \* the empty string ''
Garbage  == Tok("garbage", 0, 0, 0, "none")     \* a string that is no JWT
Cleared  == Tok("cleared", 0, 0, 0, "none")     \* res.clearCookie
Word     == Tok("word", 0, 0, 0, "none")        \* the scheme word "Bearer"

(* a token whose signature no longer matches its content *)
Tamper(t) == [t EXCEPT !.sig = "forged"]

(* jwt.sign(payload, JWT_SECRET, { expiresIn: '1h' }) at time t *)
signJwtMutTwoHours(sub, t) == Tok("jwt", sub, t, t + 2 * TokenTTL, "valid")
signJwtMutSubject(sub, t) == Tok("jwt", sub + 1, t, t + TokenTTL, "valid")
signJwt(sub, t) == Tok("jwt", sub, t, t + TokenTTL, "valid")

(* jwt.verify(token, JWT_SECRET) at time t: the payload, or it throws *)
NoPayload == [sub |-> 0, iat |-> 0, exp |-> 0]
jwtVerify(token, t) ==
    IF token.kind = "jwt" /\ token.sig = "valid" /\ t < token.exp
    THEN [threw |-> FALSE,
          payload |-> [sub |-> token.sub, iat |-> token.iat, exp |-> token.exp]]
    ELSE [threw |-> TRUE, payload |-> NoPayload]

---------------------------------------------------------------------------
(* utils/responses: the envelope *)

NoBody == [empty |-> TRUE]
NoRes == [status |-> 0, body |-> NoBody, setCookie |-> UndefTok]

sendSuccess(data, statusCode, t) ==
    [status |-> statusCode,
     body |-> [success |-> TRUE, data |-> data, timestamp |-> t, requestId |-> t],
     setCookie |-> UndefTok]

sendError(error, statusCode, t) ==
    [status |-> statusCode,
     body |-> [success |-> FALSE, error |-> error, timestamp |-> t, requestId |-> t],
     setCookie |-> UndefTok]

---------------------------------------------------------------------------
(* The gate *)

NoHeader == [present |-> FALSE, parts |-> <<>>]
Header(parts) == [present |-> TRUE, parts |-> parts]

(* req.headers.authorization?.split(' ')[1] *)
HeaderToken(h) ==
    IF h.present /\ Len(h.parts) >= 2 THEN h.parts[2] ELSE UndefTok

(* ... ?? req.cookies['access_token'] *)
ExtractToken(r) ==
    IF HeaderToken(r.authorization) # UndefTok THEN HeaderToken(r.authorization)
                                               ELSE r.cookie

(* !token *)
Falsy(token) == token.kind \in {"undefined", "empty"}

verifyJwtMutLookup(r, t) ==
    LET token == ExtractToken(r)
        v == jwtVerify(token, t)
    IN  IF Falsy(token)
        THEN [pass |-> FALSE, user |-> NoPayload,
              res |-> [status |-> 401, body |-> [error |-> "Missing token"],
                       setCookie |-> UndefTok]]
        ELSE IF v.threw \/ \A u \in users : u.id # v.payload.sub
        THEN [pass |-> FALSE, user |-> NoPayload,
              res |-> [status |-> 401, body |-> [error |-> "Invalid token"],
                       setCookie |-> UndefTok]]
        ELSE [pass |-> TRUE, user |-> v.payload, res |-> NoRes]

verifyJwtMutNext(r, t) ==
    LET token == ExtractToken(r)
        v == jwtVerify(token, t)
    IN  IF Falsy(token)
        THEN [pass |-> FALSE, user |-> NoPayload,
              res |-> [status |-> 401, body |-> [error |-> "Missing token"],
                       setCookie |-> UndefTok]]
        ELSE [pass |-> TRUE, user |-> v.payload, res |-> NoRes]

verifyJwt(r, t) ==
    LET token == ExtractToken(r)
        v == jwtVerify(token, t)
    IN  IF Falsy(token)
        THEN [pass |-> FALSE, user |-> NoPayload,
              res |-> [status |-> 401, body |-> [error |-> "Missing token"],
                       setCookie |-> UndefTok]]
        ELSE IF v.threw
        THEN [pass |-> FALSE, user |-> NoPayload,
              res |-> [status |-> 401, body |-> [error |-> "Invalid token"],
                       setCookie |-> UndefTok]]
        ELSE [pass |-> TRUE, user |-> v.payload, res |-> NoRes]

---------------------------------------------------------------------------
(* Routing: index.ts mounts the four routers under /api *)

authRouter ==
    ("POST /api/auth/register" :> <<"auth.register">>) @@
    ("POST /api/auth/login"    :> <<"auth.login">>) @@
    ("POST /api/auth/logout"   :> <<"verifyJwt", "auth.logout">>)

userRouter ==
    ("POST /api/user"       :> <<"verifyJwt", "user.create">>) @@
    ("GET /api/user"        :> <<"verifyJwt", "user.list">>) @@
    ("GET /api/user/:id"    :> <<"verifyJwt", "user.get">>) @@
    ("PATCH /api/user/:id"  :> <<"verifyJwt", "user.update">>) @@
    ("DELETE /api/user/:id" :> <<"verifyJwt", "user.remove">>)

invoiceRouter ==
    ("POST /api/invoices"       :> <<"verifyJwt", "invoice.create">>) @@
    ("GET /api/invoices"        :> <<"verifyJwt", "invoice.list">>) @@
    ("GET /api/invoices/:id"    :> <<"verifyJwt", "invoice.get">>) @@
    ("PATCH /api/invoices/:id"  :> <<"verifyJwt", "invoice.update">>) @@
    ("DELETE /api/invoices/:id" :> <<"verifyJwt", "invoice.remove">>)

taxProfileRouter ==
    ("POST /api/taxProfiles"       :> <<"verifyJwt", "taxProfile.create">>) @@
    ("GET /api/taxProfiles"        :> <<"verifyJwt", "taxProfile.list">>) @@
    ("GET /api/taxProfiles/:id"    :> <<"verifyJwt", "taxProfile.get">>) @@
    ("PATCH /api/taxProfiles/:id"  :> <<"verifyJwt", "taxProfile.update">>) @@
    ("DELETE /api/taxProfiles/:id" :> <<"verifyJwt", "taxProfile.remove">>)

RoutesMutOpenLogout ==
    ("POST /api/auth/logout" :> <<"auth.logout">>) @@
    authRouter @@ userRouter @@ invoiceRouter @@ taxProfileRouter

RoutesMutOpenList ==
    ("GET /api/invoices" :> <<"invoice.list">>) @@
    authRouter @@ userRouter @@ invoiceRouter @@ taxProfileRouter

Routes == authRouter @@ userRouter @@ invoiceRouter @@ taxProfileRouter

Guarded(op) == Head(Routes[op]) = "verifyJwt"
Controller(op) == Routes[op][Len(Routes[op])]

(* the middleware in front of the controller *)
Gate(r) ==
    IF Guarded(r.op) THEN verifyJwt(r, now)
                     ELSE [pass |-> TRUE, user |-> NoPayload, res |-> NoRes]

---------------------------------------------------------------------------
(* The client: what it can present as credentials *)

NoCreds == [authorization |-> NoHeader, cookie |-> UndefTok]

Creds ==
    {NoCreds,
     [authorization |-> NoHeader, cookie |-> cookie],
     [authorization |-> Header(<<Word>>), cookie |-> cookie],
     [authorization |-> Header(<<Word, Garbage>>), cookie |-> UndefTok],
     [authorization |-> Header(<<Word, bearer>>), cookie |-> UndefTok]}
    \cup (IF cookie.kind = "jwt"
          THEN {[authorization |-> NoHeader, cookie |-> Tamper(cookie)],
                [authorization |-> Header(<<Word, EmptyTok, cookie>>), cookie |-> cookie]}
          ELSE {})
    \cup (IF bearer.kind = "jwt"
          THEN {[authorization |-> Header(<<Word, Tamper(bearer)>>), cookie |-> cookie]}
          ELSE {})

Request(op, c, in) ==
    [op |-> op, authorization |-> c.authorization, cookie |-> c.cookie, in |-> in]

---------------------------------------------------------------------------
(* Store access (Prisma on PostgreSQL) *)

NoRow == [id |-> 0]

(* prisma.user.findUnique({ where: { email } }) *)
UserByEmailMutNone(email) == {}
UserByEmail(email) == {u \in users : u.email = email}
UserById(id) == {u \in users : u.id = id}

(* the one row of a set of at most one row *)
TheRow(S) == IF S = {} THEN NoRow ELSE CHOOSE x \in S : TRUE

(* the unique index "User_email_key" *)
EmailTakenMutNever(email) == FALSE
EmailTaken(email) == \E u \in users : u.email = email

(* undefined in a create payload leaves the column to its default (NULL) *)
OrNull(v) == IF v = Undefined THEN Null ELSE v

---------------------------------------------------------------------------
(* controllers/auth.controller *)

AuthCookie(r, token) == [r EXCEPT !.setCookie = token]

register(r) ==
    LET email == r.in.email
        password == r.in.password
        name == r.in.name
        h == hashPassword(password)
        user == [id |-> nextUserId, email |-> email, password |-> h.hash,
                 name |-> OrNull(name), createdAt |-> now]
        token == signJwt(user.id, now)
    IN  IF ~IsString(email)
        THEN \* prisma.user.findUnique({ where: { email: undefined } }) throws
             /\ res' = sendError("Registration failed", 500, now)
             /\ UNCHANGED <<store, client>>
        ELSE IF UserByEmail(email) # {}
        THEN /\ res' = sendError("Email already used", 409, now)
             /\ UNCHANGED <<store, client>>
        ELSE IF h.threw
        THEN /\ res' = sendError("Registration failed", 500, now)
             /\ UNCHANGED <<store, client>>
        ELSE /\ nextUserId <= MaxUserId
             /\ nextUserId' = nextUserId + 1
             /\ IF EmailTaken(email)
                THEN \* err.code === 'P2002' && err.meta?.target?.includes('email')
                     /\ res' = sendError("Email already used", 409, now)
                     /\ UNCHANGED <<users, client>>
                ELSE /\ users' = users \cup {user}
                     /\ res' = AuthCookie(
                            sendSuccess([token |-> token,
                                         user |-> [id |-> user.id, email |-> email,
                                                   name |-> name]],
                                        201, now), token)
                     /\ cookie' = token
                     /\ bearer' = token
             /\ UNCHANGED <<taxProfiles, invoices, nextTaxProfileId, nextInvoiceId>>

login(r) ==
    LET email == r.in.email
        password == r.in.password
        found == UserByEmail(email)
        user == TheRow(found)
        c == comparePassword(password, user.password)
        token == signJwt(user.id, now)
    IN  IF ~IsString(email)
        THEN /\ res' = sendError("Login failed", 500, now)
             /\ UNCHANGED <<store, client>>
        ELSE IF found = {}
        THEN /\ res' = sendError("Invalid credentials", 401, now)
             /\ UNCHANGED <<store, client>>
        ELSE IF c.threw
        THEN /\ res' = sendError("Login failed", 500, now)
             /\ UNCHANGED <<store, client>>
        ELSE IF ~c.same
        THEN /\ res' = sendError("Invalid credentials", 401, now)
             /\ UNCHANGED <<store, client>>
        ELSE /\ res' = AuthCookie(
                    sendSuccess([token |-> token,
                                 user |-> [id |-> user.id, email |-> user.email,
                                           name |-> user.name]],
                                200, now), token)
             /\ cookie' = token
             /\ bearer' = token
             /\ UNCHANGED store

logout(r) ==
    /\ res' = AuthCookie(sendSuccess([message |-> "Logged out"], 200, now), Cleared)
    /\ cookie' = UndefTok
    /\ UNCHANGED <<store, bearer>>

---------------------------------------------------------------------------
(* utils/validators and utils/pagination *)

(* validateNumericId(id, fieldName): the id, or it throws *)
validateNumericId(raw, fieldName) ==
    LET parsed == ToNumber(raw)
    IN  IF parsed.nan \/ parsed.v <= 0
        THEN [threw |-> TRUE, id |-> 0,
              message |-> <<"Invalid", fieldName, "format. Must be a positive integer.">>]
        ELSE [threw |-> FALSE, id |-> parsed.v, message |-> <<>>]

DEFAULT_PAGE == 1
DEFAULT_LIMIT == 10
MAX_LIMIT == 100

getPagination(query) ==
    LET rawPage == ToNumber(query.page)
        rawLimit == ToNumber(query.limit)
    IN  [page |-> IF rawPage.nan \/ rawPage.v < 1 THEN DEFAULT_PAGE ELSE rawPage.v,
         limit |-> IF rawLimit.nan \/ rawLimit.v < 1 THEN DEFAULT_LIMIT
                   ELSE Min(rawLimit.v, MAX_LIMIT)]

(* Number(x) || d *)
NumberOr(raw, d) ==
    LET n == ToNumber(raw) IN IF n.nan \/ n.v = 0 THEN d ELSE n.v

---------------------------------------------------------------------------
(* Store queries *)

(* ORDER BY k DESC; rows with equal keys are put in descending id order *)
Before(x, y) == x[1] > y[1] \/ (x[1] = y[1] /\ x[2] > y[2])
Ranked(K) == {<<Cardinality({y \in K : Before(y, x)}) + 1, x[3]>> : x \in K}
InOrder(R) == [p \in 1..Cardinality(R) |-> (CHOOSE t \in R : t[1] = p)[2]]
OrderDesc(K) == InOrder(Ranked(K))

Reverse(q) == [i \in 1..Len(q) |-> q[Len(q) + 1 - i]]

(* findMany({ skip, take }) on the ordered rows: a negative skip is rejected, *)
(* a negative take counts from the end of the list                           *)
findMany(rows, skip, take) ==
    IF skip < 0 THEN [threw |-> TRUE, rows |-> <<>>]
    ELSE IF take >= 0
    THEN [threw |-> FALSE,
          rows |-> SubSeq(rows, skip + 1, Min(skip + take, Len(rows)))]
    ELSE [threw |-> FALSE,
          rows |-> Reverse(SubSeq(Reverse(rows), skip + 1,
                                  Min(skip - take, Len(rows))))]

(* ON DELETE CASCADE: User -> TaxProfile -> Invoice *)
ProfilesOfUserMutNone(id) == {}
ProfilesOfUser(id) == {p \in taxProfiles : p.userId = id}
InvoicesOfProfiles(P) == {i \in invoices : \E p \in P : i.taxProfileId = p.id}

---------------------------------------------------------------------------
(* schemas/user.schema *)

(* z.string().email(): one "@" with text before it and a dotted domain after *)
IsEmail(s) ==
    /\ IsString(s)
    /\ \E i \in 2..(Len(s) - 1) :
          /\ s[i] = "@"
          /\ \A j \in 1..Len(s) : j # i => s[j] # "@"
          /\ \E k \in (i + 2)..(Len(s) - 1) : s[k] = "."

IsPassword(s) == IsString(s) /\ Len(s) >= 12

UserCreateSchema(body) ==
    IsEmail(body.email) /\ IsPassword(body.password) /\ IsString(body.name)

UserUpdateSchemaMutNoEmail(body) ==
    /\ body.email = Undefined
    /\ body.password = Undefined \/ IsPassword(body.password)
    /\ body.name = Undefined \/ IsString(body.name)

UserUpdateSchema(body) ==
    /\ body.email = Undefined \/ IsEmail(body.email)
    /\ body.password = Undefined \/ IsPassword(body.password)
    /\ body.name = Undefined \/ IsString(body.name)

---------------------------------------------------------------------------
(* controllers/user.controller with services/user.service *)

userCreate(r) ==
    LET h == hashPassword(r.in.password)
        user == [id |-> nextUserId, email |-> r.in.email, password |-> h.hash,
                 name |-> r.in.name, createdAt |-> now]
    IN  IF ~UserCreateSchema(r.in)
        THEN /\ res' = sendError("Validation failed", 400, now)
             /\ UNCHANGED <<store, client>>
        ELSE /\ nextUserId <= MaxUserId
             /\ nextUserId' = nextUserId + 1
             /\ IF EmailTaken(r.in.email)
                THEN \* P2002: the unique index "User_email_key" rejects the row
                     /\ res' = sendError("Creation failed", 500, now)
                     /\ users' = users
                ELSE /\ res' = sendSuccess(user, 201, now)
                     /\ users' = users \cup {user}
             /\ UNCHANGED <<taxProfiles, invoices, nextTaxProfileId, nextInvoiceId, client>>

userGet(r) ==
    LET v == validateNumericId(r.in.id, "User ID")
        found == UserById(v.id)
    IN  /\ res' = IF v.threw THEN sendError(v.message, 400, now)
                  ELSE IF found = {} THEN sendError("Not found", 404, now)
                  ELSE sendSuccess(TheRow(found), 200, now)
        /\ UNCHANGED <<store, client>>

userUpdate(r) ==
    LET v == validateNumericId(r.in.id, "User ID")
        b == r.in.body
        found == UserById(v.id)
        old == TheRow(found)
        new == [old EXCEPT
                  !.email = IF b.email = Undefined THEN @ ELSE b.email,
                  !.name = IF b.name = Undefined THEN @ ELSE b.name,
                  !.password = IF Truthy(b.password) THEN hashPassword(b.password).hash
                               ELSE @]
    IN  IF v.threw
        THEN /\ res' = sendError(v.message, 400, now)
             /\ UNCHANGED <<store, client>>
        ELSE IF ~UserUpdateSchema(b)
        THEN /\ res' = sendError("Validation failed", 400, now)
             /\ UNCHANGED <<store, client>>
        ELSE IF found = {}
        THEN \* P2025, answered with err.message
             /\ res' = sendError("Record to update not found.", 400, now)
             /\ UNCHANGED <<store, client>>
        ELSE IF new.email # old.email /\ EmailTaken(new.email)
        THEN \* P2002, answered with err.message
             /\ res' = sendError("Unique constraint failed on the fields: (email)", 400, now)
             /\ UNCHANGED <<store, client>>
        ELSE /\ users' = (users \ {old}) \cup {new}
             /\ res' = sendSuccess(new, 200, now)
             /\ UNCHANGED <<taxProfiles, invoices, nextUserId, nextTaxProfileId,
                            nextInvoiceId, client>>

userRemove(r) ==
    LET v == validateNumericId(r.in.id, "User ID")
        found == UserById(v.id)
        gone == ProfilesOfUser(v.id)
    IN  IF v.threw
        THEN /\ res' = sendError(v.message, 400, now)
             /\ UNCHANGED <<store, client>>
        ELSE IF found = {}
        THEN \* P2025, answered with err.message
             /\ res' = sendError("Record to delete does not exist.", 400, now)
             /\ UNCHANGED <<store, client>>
        ELSE /\ users' = users \ found
             /\ taxProfiles' = taxProfiles \ gone
             /\ invoices' = invoices \ InvoicesOfProfiles(gone)
             /\ res' = [status |-> 204, body |-> NoBody, setCookie |-> UndefTok]
             /\ UNCHANGED <<nextUserId, nextTaxProfileId, nextInvoiceId, client>>

(* service.listUsers(page, limit, filter) *)
listUsers(page, limit, filter) ==
    LET match == {u \in users :
                    /\ filter.email # Undefined => Contains(u.email, filter.email)
                    /\ filter.name # Undefined => Contains(u.name, filter.name)}
        skip == (page - 1) * limit
    IN  findMany(OrderDesc({<<u.createdAt, u.id, u>> : u \in match}), skip, limit)

userList(r) ==
    LET q == r.in
        pg == getPagination(q)
        filter == [email |-> IF Truthy(q.email) THEN q.email ELSE Undefined,
                   name |-> IF Truthy(q.name) THEN q.name ELSE Undefined]
        found == listUsers(pg.page, pg.limit, filter)
    IN  /\ res' = IF found.threw THEN sendError("List failed", 500, now)
                  ELSE sendSuccess([page |-> pg.page, limit |-> pg.limit,
                                    data |-> found.rows], 200, now)
        /\ UNCHANGED <<store, client>>

---------------------------------------------------------------------------
(* schemas/taxProfile.schema and schemas/invoice.schema *)

(* a number field of a JSON body: Absent when the body has no such field *)
Absent == NaN

(* z.number().int().positive() *)
IsPositiveInt(n) == ~n.nan /\ n.v > 0

IsLetter(c) == \E k \in 1..26 : UpperChars[k] = c \/ LowerChars[k] = c

(* 5..30 characters of /^[A-Z0-9\-]+$/i *)
IsTaxIdNumber(s) ==
    /\ IsString(s)
    /\ Len(s) >= 5 /\ Len(s) <= 30
    /\ \A i \in 1..Len(s) : IsLetter(s[i]) \/ IsDigit(s[i]) \/ s[i] = "-"

IsAddress(s) == IsString(s) /\ Len(s) >= 10 /\ Len(s) <= 255

TaxProfileCreateSchema(b) ==
    /\ IsPositiveInt(b.userId)
    /\ IsString(b.name) /\ Len(b.name) >= 1
    /\ IsTaxIdNumber(b.tax_id_number)
    /\ IsAddress(b.address)

TaxProfileUpdateSchema(b) ==
    /\ b.userId = Absent \/ IsPositiveInt(b.userId)
    /\ b.name = Undefined \/ (IsString(b.name) /\ Len(b.name) >= 1)
    /\ b.tax_id_number = Undefined \/ IsTaxIdNumber(b.tax_id_number)
    /\ b.address = Undefined \/ IsAddress(b.address)

(* /^\d+(\.\d{1,2})?$/ *)
IsAmount(s) ==
    /\ IsString(s)
    /\ \/ IsDigits(s)
       \/ \E d \in 2..(Len(s) - 1) :
             /\ s[d] = "."
             /\ IsDigits(SubSeq(s, 1, d - 1))
             /\ IsDigits(SubSeq(s, d + 1, Len(s)))
             /\ Len(s) - d <= 2

(* new Prisma.Decimal(v) of such a string, as an exact number of cents *)
Decimal(s) ==
    IF IsDigits(s) THEN 100 * DigitsVal(s)
    ELSE LET d == CHOOSE k \in 2..(Len(s) - 1) : s[k] = "."
             frac == SubSeq(s, d + 1, Len(s))
         IN  100 * DigitsVal(SubSeq(s, 1, d - 1))
               + (IF Len(frac) = 1 THEN 10 * DigitsVal(frac) ELSE DigitsVal(frac))

Statuses == {<<"d", "r", "a", "f", "t">>, <<"s", "e", "n", "t">>, <<"p", "a", "i", "d">>}

InvoiceCreateSchema(b) ==
    /\ IsPositiveInt(b.taxProfileId)
    /\ IsAmount(b.amount)
    /\ b.status \in Statuses

InvoiceUpdateSchema(b) ==
    /\ b.taxProfileId = Absent \/ IsPositiveInt(b.taxProfileId)
    /\ b.amount = Undefined \/ IsAmount(b.amount)
    /\ b.status = Undefined \/ b.status \in Statuses

---------------------------------------------------------------------------
(* controllers/taxProfile.controller *)

TaxProfileById(id) == {p \in taxProfiles : p.id = id}

taxProfileCreate(r) ==
    LET b == r.in
        profile == [id |-> nextTaxProfileId, userId |-> b.userId.v, name |-> b.name,
                    tax_id_number |-> b.tax_id_number, address |-> b.address]
    IN  IF ~TaxProfileCreateSchema(b)
        THEN /\ res' = sendError("Validation failed", 400, now)
             /\ UNCHANGED <<store, client>>
        ELSE /\ nextTaxProfileId <= MaxTaxProfileId
             /\ nextTaxProfileId' = nextTaxProfileId + 1
             /\ IF UserById(b.userId.v) = {}
                THEN \* P2003: "TaxProfile_userId_fkey" rejects the row
                     /\ res' = sendError("Internal server error", 500, now)
                     /\ taxProfiles' = taxProfiles
                ELSE /\ res' = sendSuccess(profile, 201, now)
                     /\ taxProfiles' = taxProfiles \cup {profile}
             /\ UNCHANGED <<users, invoices, nextUserId, nextInvoiceId, client>>

taxProfileGet(r) ==
    LET v == validateNumericId(r.in.id, "Tax Profile ID")
        found == TaxProfileById(v.id)
    IN  /\ res' = IF v.threw THEN sendError(v.message, 400, now)
                  ELSE IF found = {} THEN sendError("Not found", 404, now)
                  ELSE sendSuccess(TheRow(found), 200, now)
        /\ UNCHANGED <<store, client>>

taxProfileUpdate(r) ==
    LET v == validateNumericId(r.in.id, "Tax Profile ID")
        b == r.in.body
        found == TaxProfileById(v.id)
        old == TheRow(found)
        new == [old EXCEPT
                  !.userId = IF b.userId = Absent THEN @ ELSE b.userId.v,
                  !.name = IF b.name = Undefined THEN @ ELSE b.name,
                  !.tax_id_number = IF b.tax_id_number = Undefined THEN @
                                    ELSE b.tax_id_number,
                  !.address = IF b.address = Undefined THEN @ ELSE b.address]
    IN  IF v.threw
        THEN /\ res' = sendError(v.message, 400, now)
             /\ UNCHANGED <<store, client>>
        ELSE IF ~TaxProfileUpdateSchema(b)
        THEN /\ res' = sendError("Validation failed", 400, now)
             /\ UNCHANGED <<store, client>>
        ELSE IF found = {}
        THEN /\ res' = sendError("Record to update not found.", 400, now)
             /\ UNCHANGED <<store, client>>
        ELSE IF UserById(new.userId) = {}
        THEN /\ res' = sendError("Foreign key constraint violated: TaxProfile_userId_fkey",
                                 400, now)
             /\ UNCHANGED <<store, client>>
        ELSE /\ taxProfiles' = (taxProfiles \ {old}) \cup {new}
             /\ res' = sendSuccess(new, 200, now)
             /\ UNCHANGED <<users, invoices, nextUserId, nextTaxProfileId,
                            nextInvoiceId, client>>

taxProfileRemove(r) ==
    LET v == validateNumericId(r.in.id, "Tax Profile ID")
        found == TaxProfileById(v.id)
    IN  IF v.threw
        THEN /\ res' = sendError(v.message, 400, now)
             /\ UNCHANGED <<store, client>>
        ELSE IF found = {}
        THEN \* err.code === 'P2025'
             /\ res' = sendError("Not found", 404, now)
             /\ UNCHANGED <<store, client>>
        ELSE /\ taxProfiles' = taxProfiles \ found
             /\ invoices' = invoices \ InvoicesOfProfiles(found)
             /\ res' = [status |-> 204, body |-> NoBody, setCookie |-> UndefTok]
             /\ UNCHANGED <<users, nextUserId, nextTaxProfileId, nextInvoiceId, client>>

(* the handler's promise rejects before any response is written: the router *)
(* either leaves the request without a response, or (when it forwards       *)
(* rejected promises) hands the error to the global error handler of        *)
(* index.ts, which answers 500                                              *)
Unanswered == [status |-> 0, body |-> [rejected |-> TRUE], setCookie |-> UndefTok]
Rejected(t) == {Unanswered, sendError("Internal server error", 500, t)}

taxProfileList(r) ==
    LET q == r.in
        page == NumberOr(q.page, 1)
        limit == NumberOr(q.limit, 10)
        skip == (page - 1) * limit
        uid == validateNumericId(q.userId, "ID")
        match == {p \in taxProfiles :
                    /\ Truthy(q.name) => Contains(p.name, q.name)
                    /\ Truthy(q.userId) => p.userId = uid.id
                    /\ Truthy(q.tax_id_number) =>
                           Contains(p.tax_id_number, q.tax_id_number)}
        total == Cardinality(match)
        found == findMany(OrderDesc({<<p.id, p.id, p>> : p \in match}), skip, limit)
    IN  /\ IF Truthy(q.userId) /\ uid.threw THEN res' \in Rejected(now)
           ELSE res' = IF found.threw THEN sendError("Internal server error", 500, now)
                       ELSE sendSuccess([page |-> page, limit |-> limit, total |-> total,
                                         data |-> found.rows], 200, now)
        /\ UNCHANGED <<store, client>>

---------------------------------------------------------------------------
(* controllers/invoice.controller *)

InvoiceById(id) == {i \in invoices : i.id = id}

invoiceCreate(r) ==
    LET b == r.in
        invoice == [id |-> nextInvoiceId, taxProfileId |-> b.taxProfileId.v,
                    amount |-> Decimal(b.amount), status |-> b.status,
                    issuedAt |-> IF b.issuedAt = Absent THEN now ELSE b.issuedAt.v]
    IN  IF ~InvoiceCreateSchema(b)
        THEN /\ res' = sendError("Validation failed", 400, now)
             /\ UNCHANGED <<store, client>>
        ELSE /\ nextInvoiceId <= MaxInvoiceId
             /\ nextInvoiceId' = nextInvoiceId + 1
             /\ IF TaxProfileById(b.taxProfileId.v) = {}
                THEN \* P2003: "Invoice_taxProfileId_fkey" rejects the row
                     /\ res' = sendError("Internal server error", 500, now)
                     /\ invoices' = invoices
                ELSE /\ res' = sendSuccess(invoice, 201, now)
                     /\ invoices' = invoices \cup {invoice}
             /\ UNCHANGED <<users, taxProfiles, nextUserId, nextTaxProfileId, client>>

invoiceGet(r) ==
    LET v == validateNumericId(r.in.id, "Invoice ID")
        found == InvoiceById(v.id)
    IN  /\ res' = IF v.threw THEN sendError(v.message, 400, now)
                  ELSE IF found = {} THEN sendError("Not found", 404, now)
                  ELSE sendSuccess(TheRow(found), 200, now)
        /\ UNCHANGED <<store, client>>

invoiceUpdate(r) ==
    LET v == validateNumericId(r.in.id, "Invoice ID")
        b == r.in.body
        found == InvoiceById(v.id)
        old == TheRow(found)
        new == [old EXCEPT
                  !.taxProfileId = IF b.taxProfileId = Absent THEN @ ELSE b.taxProfileId.v,
                  !.amount = IF b.amount = Undefined THEN @ ELSE Decimal(b.amount),
                  !.status = IF b.status = Undefined THEN @ ELSE b.status,
                  \* InvoiceIssuedAt accepts undefined, so the partial schema still
                  \* runs its transform on a missing key: v ? new Date(v) : new Date()
                  !.issuedAt = IF b.issuedAt = Absent THEN now ELSE b.issuedAt.v]
    IN  IF v.threw
        THEN /\ res' = sendError(v.message, 400, now)
             /\ UNCHANGED <<store, client>>
        ELSE IF ~InvoiceUpdateSchema(b)
        THEN /\ res' = sendError("Validation failed", 400, now)
             /\ UNCHANGED <<store, client>>
        ELSE IF found = {}
        THEN /\ res' = sendError("Record to update not found.", 400, now)
             /\ UNCHANGED <<store, client>>
        ELSE IF TaxProfileById(new.taxProfileId) = {}
        THEN /\ res' = sendError("Foreign key constraint violated: Invoice_taxProfileId_fkey",
                                 400, now)
             /\ UNCHANGED <<store, client>>
        ELSE /\ invoices' = (invoices \ {old}) \cup {new}
             /\ res' = sendSuccess(new, 200, now)
             /\ UNCHANGED <<users, taxProfiles, nextUserId, nextTaxProfileId,
                            nextInvoiceId, client>>

invoiceRemove(r) ==
    LET v == validateNumericId(r.in.id, "Invoice ID")
        found == InvoiceById(v.id)
    IN  IF v.threw
        THEN /\ res' = sendError(v.message, 400, now)
             /\ UNCHANGED <<store, client>>
        ELSE IF found = {}
        THEN \* err.code === 'P2025'
             /\ res' = sendError("Not found", 404, now)
             /\ UNCHANGED <<store, client>>
        ELSE /\ invoices' = invoices \ found
             /\ res' = [status |-> 204, body |-> NoBody, setCookie |-> UndefTok]
             /\ UNCHANGED <<users, taxProfiles, nextUserId, nextTaxProfileId,
                            nextInvoiceId, client>>

(* the email of the account that owns the invoice's tax profile *)
OwnerEmail(i) ==
    LET p == TheRow(TaxProfileById(i.taxProfileId))
    IN  TheRow(UserById(p.userId)).email

(* the where clause the handler builds from the query *)
InvoiceFilterMutOverwrite(q) ==
    LET f1 == [status |-> IF Truthy(q.status) THEN q.status ELSE Undefined,
               email |-> IF Truthy(q.email) THEN q.email ELSE Undefined,
               gte |-> Absent, lte |-> Absent]
        f2 == IF Truthy(q.minAmount)
              THEN [f1 EXCEPT !.gte = Num(Decimal(q.minAmount))] ELSE f1
    IN  IF Truthy(q.maxAmount)
        THEN [f1 EXCEPT !.lte = Num(Decimal(q.maxAmount))] ELSE f2
InvoiceFilter(q) ==
    LET f1 == [status |-> IF Truthy(q.status) THEN q.status ELSE Undefined,
               email |-> IF Truthy(q.email) THEN q.email ELSE Undefined,
               gte |-> Absent, lte |-> Absent]
        f2 == IF Truthy(q.minAmount)
              THEN [f1 EXCEPT !.gte = Num(Decimal(q.minAmount))] ELSE f1
    IN  IF Truthy(q.maxAmount)
        THEN [f2 EXCEPT !.lte = Num(Decimal(q.maxAmount))] ELSE f2

InvoiceWhere(filter) ==
    {i \in invoices :
        /\ filter.status # Undefined => i.status = filter.status
        /\ filter.email # Undefined => ContainsInsensitive(OwnerEmail(i), filter.email)
        /\ filter.gte # Absent => i.amount >= filter.gte.v
        /\ filter.lte # Absent => i.amount <= filter.lte.v}

(* with the related tax profile and its user, as include asks *)
WithOwner(i) ==
    LET p == TheRow(TaxProfileById(i.taxProfileId))
    IN  [id |-> i.id, taxProfileId |-> i.taxProfileId, amount |-> i.amount,
         status |-> i.status, issuedAt |-> i.issuedAt,
         taxProfile |-> [id |-> p.id, userId |-> p.userId, name |-> p.name,
                         tax_id_number |-> p.tax_id_number, address |-> p.address,
                         user |-> TheRow(UserById(p.userId))]]

invoiceList(r) ==
    LET q == r.in
        page == NumberOr(q.page, 1)
        limit == NumberOr(q.limit, 10)
        skip == (page - 1) * limit
        badDecimal == \/ (Truthy(q.minAmount) /\ ~IsAmount(q.minAmount))
                      \/ (Truthy(q.maxAmount) /\ ~IsAmount(q.maxAmount))
        match == InvoiceWhere(InvoiceFilter(q))
        total == Cardinality(match)
        found == findMany(OrderDesc({<<i.issuedAt, i.id, WithOwner(i)>> : i \in match}),
                          skip, limit)
    IN  /\ IF badDecimal THEN res' \in Rejected(now)
           ELSE res' = IF found.threw THEN sendError("Internal server error", 500, now)
                       ELSE sendSuccess([page |-> page, limit |-> limit, total |-> total,
                                         data |-> found.rows], 200, now)
        /\ UNCHANGED <<store, client>>

---------------------------------------------------------------------------
(* index.ts: rateLimit({ windowMs, max, message, standardHeaders }) *)

(* max: requests of one client passed on in one window *)
LimitMax == 100

(* the limiter's store before the client's first request in a window:      *)
(* hits, the requests counted; remaining, the RateLimit-Remaining header   *)
(* of the latest response the limiter saw                                  *)
NoHits == [hits |-> 0, remaining |-> LimitMax]

TooManyRequests ==
    [status |-> 429,
     body |-> [text |-> "Too many requests from this IP, please try again later."],
     setCookie |-> UndefTok]

(* the store of the limiter counts the request (counts above max + 1 are   *)
(* not told apart) and the header reports what is left                     *)
increment(l) ==
    LET n == IF l.hits > LimitMax THEN l.hits ELSE l.hits + 1
    IN  [hits |-> n, remaining |-> IF n > LimitMax THEN 0 ELSE LimitMax - n]

exceededMutBelow(l) == l.hits >= LimitMax
exceeded(l) == l.hits > LimitMax

---------------------------------------------------------------------------
(* index.ts: the server process *)

(* after app.listen: accepting requests, store connected, no signal yet.   *)
(* closing counts the server.close callbacks waiting for the 'close'       *)
(* event, stage follows the callback that runs, timers holds the times (in *)
(* seconds on the clock t, which starts with the first signal) at which a  *)
(* forced exit is due                                                      *)
Booted ==
    [listening |-> TRUE, connected |-> TRUE, closing |-> 0, stage |-> "none",
     timers |-> {}, t |-> 0, exited |-> FALSE, code |-> 0]

Alive == ~proc.exited
Accepting == Alive /\ proc.listening

(* process.exit(code) *)
processExit(p, code) == [p EXCEPT !.exited = TRUE, !.code = code]

(* process.on('unhandledRejection'): log and process.exit(1) *)
unhandledRejection(p) == processExit(p, 1)

---------------------------------------------------------------------------
(* Serving one request: the route's middleware chain *)

Run(c, r) ==
    CASE c = "auth.register" -> register(r)
      [] c = "auth.login" -> login(r)
      [] c = "auth.logout" -> logout(r)
      [] c = "user.create" -> userCreate(r)
      [] c = "user.get" -> userGet(r)
      [] c = "user.update" -> userUpdate(r)
      [] c = "user.remove" -> userRemove(r)
      [] c = "user.list" -> userList(r)
      [] c = "taxProfile.create" -> taxProfileCreate(r)
      [] c = "taxProfile.get" -> taxProfileGet(r)
      [] c = "taxProfile.update" -> taxProfileUpdate(r)
      [] c = "taxProfile.remove" -> taxProfileRemove(r)
      [] c = "taxProfile.list" -> taxProfileList(r)
      [] c = "invoice.create" -> invoiceCreate(r)
      [] c = "invoice.get" -> invoiceGet(r)
      [] c = "invoice.update" -> invoiceUpdate(r)
      [] c = "invoice.remove" -> invoiceRemove(r)
      [] c = "invoice.list" -> invoiceList(r)

NoRequest == [op |-> "none", authorization |-> NoHeader, cookie |-> UndefTok,
              in |-> [none |-> TRUE]]
Idle == req = NoRequest

App(r) ==
    LET g == Gate(r)
    IN  /\ Idle
        /\ Accepting
        /\ req' = r
        /\ now' = now
        /\ IF g.pass
           THEN /\ reqUser' = g.user
                /\ ran' = Controller(r.op)
                /\ Run(Controller(r.op), r)
           ELSE /\ reqUser' = NoPayload
                /\ ran' = "none"
                /\ res' = g.res
                /\ UNCHANGED <<store, client>>
        \* a handler whose promise rejected with nobody to catch it
        /\ proc' = IF res' = Unanswered THEN unhandledRejection(proc) ELSE proc

(* a request that the limiter has let through *)
Serve(r) ==
    /\ App(r)
    /\ UNCHANGED <<limiter, calls>>

(* app.use('/api/', limiter): the limiter counts the request, and answers  *)
(* 429 itself once the count is above max                                  *)
Limited(r) ==
    /\ limiter' = increment(limiter)
    /\ IF exceeded(limiter')
       THEN /\ Idle
            /\ Accepting
            /\ req' = r
            /\ reqUser' = NoPayload
            /\ ran' = "none"
            /\ res' = TooManyRequests
            /\ UNCHANGED <<store, client, now, proc>>
       ELSE App(r)
    /\ UNCHANGED calls

(* app.get('/health'): mounted on the app, not under /api/ *)
Health ==
    /\ Idle
    /\ Accepting
    /\ req' = [NoRequest EXCEPT !.op = "GET /health"]
    /\ reqUser' = NoPayload
    /\ ran' = "health"
    /\ res' = sendSuccess([status |-> "healthy", timestamp |-> now], 200, now)
    /\ UNCHANGED <<store, client, now, proc, limiter, calls>>

(* the window of the limiter ends: its store forgets the client *)
WindowExpires ==
    /\ Alive
    /\ limiter.hits > 0
    /\ limiter' = NoHits
    /\ UNCHANGED <<store, client, now, req, reqUser, ran, res, proc, calls>>

---------------------------------------------------------------------------
(* Requests *)

CookieCreds == [authorization |-> NoHeader, cookie |-> cookie]

(* requests to a guarded route: every input with the cookie, and one input *)
(* with each of the other credentials                                      *)
GuardedRequests(op, Inputs) ==
    {Request(op, CookieCreds, in) : in \in Inputs}
    \cup {Request(op, c, CHOOSE in \in Inputs : TRUE) : c \in Creds}

N2 == <<"B", "o", "b">>
PShort == <<"p", "w">>
T1 == <<"U", "S", "-", "1", "2">>
T2 == <<"I", "T", "-", "9", "9">>
A1 == Rep("x", 10)
Draft == <<"d", "r", "a", "f", "t">>
Sent == <<"s", "e", "n", "t">>
Paid == <<"p", "a", "i", "d">>

NoInput == [none |-> TRUE]

RegisterBodies ==
    [email : Emails \cup {Undefined}, password : {P1, Undefined},
     name : Names \cup {Undefined}]
LoginBodies == [email : Emails \cup {Undefined}, password : Passwords \cup {Undefined}]
UserCreateBodies == [email : Emails, password : {P1, PShort}, name : Names]

SomeRegisterBodies ==
    {[email |-> E1, password |-> P1, name |-> N1],
     [email |-> E2, password |-> P1, name |-> Undefined]}
SomeLoginBodies == {[email |-> E1, password |-> P1], [email |-> E1, password |-> P2]}
SomeUserCreateBodies == {[email |-> E2, password |-> P1, name |-> N1]}
SomeIds == {<<"1">>, <<"x">>}
SomeUserIds == SomeIds \cup {<<"2">>}
SomeUserUpdates == {[email |-> Undefined, password |-> Undefined, name |-> N2]}
SomeTaxProfileBodies ==
    {[userId |-> Num(1), name |-> N1, tax_id_number |-> T1, address |-> A1]}
SomeTaxProfileUpdates ==
    {[userId |-> Absent, name |-> Undefined, tax_id_number |-> T2, address |-> Undefined]}
SomeInvoiceBodies ==
    {[taxProfileId |-> Num(1), amount |-> <<"1", ".", "5">>, status |-> Draft,
      issuedAt |-> Absent]}
SomeInvoiceUpdates ==
    {[taxProfileId |-> Absent, amount |-> Undefined, status |-> Paid, issuedAt |-> Absent]}

Pages == {Undefined, <<"x">>, <<"0">>, <<"-", "1">>, <<"1">>, <<"2">>, <<"3">>}
Limits == {Undefined, <<"x">>, <<"0">>, <<"-", "2">>, <<"1">>, <<"2">>,
           <<"1", "0", "0">>, <<"1", "0", "1">>, <<"9", "9", "9">>}

UserQueries ==
    [page : Pages, limit : Limits, email : {Undefined, <<"a">>}, name : {Undefined, <<"n">>}]
TaxProfileQueries ==
    [page : Pages, limit : Limits, name : {Undefined, <<"n">>},
     userId : {Undefined, <<"1">>}, tax_id_number : {Undefined}]
InvoiceQueries ==
    [page : Pages, limit : Limits, status : {Undefined, Sent}, email : {Undefined, <<"a">>},
     minAmount : {Undefined, <<"0", ".", "5">>}, maxAmount : {Undefined, <<"1">>}]

SomeUserQueries ==
    {[page |-> Undefined, limit |-> l, email |-> Undefined, name |-> Undefined] :
        l \in {Undefined, <<"9", "9", "9">>}}
SomeTaxProfileQueries ==
    {[page |-> Undefined, limit |-> l, name |-> Undefined, userId |-> Undefined,
      tax_id_number |-> Undefined] : l \in {Undefined, <<"9", "9", "9">>}}
SomeInvoiceQueries ==
    {[page |-> Undefined, limit |-> l, status |-> Undefined, email |-> Undefined,
      minAmount |-> Undefined, maxAmount |-> Undefined] :
        l \in {Undefined, <<"9", "9", "9">>}}

Register(Bodies) ==
    \E b \in Bodies : Serve(Request("POST /api/auth/register", CookieCreds, b))

Login(Bodies) ==
    \E b \in Bodies : Serve(Request("POST /api/auth/login", CookieCreds, b))

Logout ==
    \E r \in GuardedRequests("POST /api/auth/logout", {NoInput}) : Serve(r)

UserCreate(Bodies) ==
    \E r \in GuardedRequests("POST /api/user", Bodies) : Serve(r)

UserGet(Ids) ==
    \E r \in GuardedRequests("GET /api/user/:id", [id : Ids]) : Serve(r)

UserUpdate(Ids, Bodies) ==
    \E r \in GuardedRequests("PATCH /api/user/:id", [id : Ids, body : Bodies]) : Serve(r)

UserRemove(Ids) ==
    \E r \in GuardedRequests("DELETE /api/user/:id", [id : Ids]) : Serve(r)

UserList(Queries) ==
    \E r \in GuardedRequests("GET /api/user", Queries) : Serve(r)

TaxProfileCreate(Bodies) ==
    \E r \in GuardedRequests("POST /api/taxProfiles", Bodies) : Serve(r)

TaxProfileGet(Ids) ==
    \E r \in GuardedRequests("GET /api/taxProfiles/:id", [id : Ids]) : Serve(r)

TaxProfileUpdate(Ids, Bodies) ==
    \E r \in GuardedRequests("PATCH /api/taxProfiles/:id", [id : Ids, body : Bodies]) :
        Serve(r)

TaxProfileRemove(Ids) ==
    \E r \in GuardedRequests("DELETE /api/taxProfiles/:id", [id : Ids]) : Serve(r)

TaxProfileList(Queries) ==
    \E r \in GuardedRequests("GET /api/taxProfiles", Queries) : Serve(r)

InvoiceCreate(Bodies) ==
    \E r \in GuardedRequests("POST /api/invoices", Bodies) : Serve(r)

InvoiceGet(Ids) ==
    \E r \in GuardedRequests("GET /api/invoices/:id", [id : Ids]) : Serve(r)

InvoiceUpdate(Ids, Bodies) ==
    \E r \in GuardedRequests("PATCH /api/invoices/:id", [id : Ids, body : Bodies]) :
        Serve(r)

InvoiceRemove(Ids) ==
    \E r \in GuardedRequests("DELETE /api/invoices/:id", [id : Ids]) : Serve(r)

InvoiceList(Queries) ==
    \E r \in GuardedRequests("GET /api/invoices", Queries) : Serve(r)

(* the exchange is over: request and response are dropped *)
Finish ==
    /\ ~Idle
    /\ Alive
    /\ req' = NoRequest
    /\ reqUser' = NoPayload
    /\ ran' = "none"
    /\ res' = NoRes
    /\ UNCHANGED <<store, client, now, proc, limiter, calls>>

Tick ==
    /\ Idle
    /\ Alive
    /\ now < MaxTime
    /\ now' = now + 1
    /\ UNCHANGED <<store, client, req, reqUser, ran, res, proc, limiter, calls>>

---------------------------------------------------------------------------
(* The service from an empty database, every route *)

(* the request being served and its response *)
exchange == <<req, reqUser, ran, res>>

(* the process has just started: no client counted, nothing suspended *)
Started ==
    /\ proc = Booted
    /\ limiter = NoHits
    /\ calls = {}

NoExchange ==
    /\ req = NoRequest
    /\ reqUser = NoPayload
    /\ ran = "none"
    /\ res = NoRes

Init ==
    /\ users = {}
    /\ taxProfiles = {}
    /\ invoices = {}
    /\ nextUserId = 1
    /\ nextTaxProfileId = 1
    /\ nextInvoiceId = 1
    /\ now = 0
    /\ cookie = UndefTok
    /\ bearer = UndefTok
    /\ NoExchange
    /\ Started

Next ==
    \/ Tick
    \/ Finish
    \/ Register(SomeRegisterBodies)
    \/ Login(SomeLoginBodies)
    \/ Logout
    \/ UserCreate(SomeUserCreateBodies)
    \/ UserGet(SomeUserIds)
    \/ UserUpdate(SomeIds, SomeUserUpdates)
    \/ UserRemove(SomeIds)
    \/ UserList(SomeUserQueries)
    \/ TaxProfileCreate(SomeTaxProfileBodies)
    \/ TaxProfileGet(SomeIds)
    \/ TaxProfileUpdate(SomeIds, SomeTaxProfileUpdates)
    \/ TaxProfileRemove(SomeIds)
    \/ TaxProfileList(SomeTaxProfileQueries)
    \/ InvoiceCreate(SomeInvoiceBodies)
    \/ InvoiceGet(SomeIds)
    \/ InvoiceUpdate(SomeIds, SomeInvoiceUpdates)
    \/ InvoiceRemove(SomeIds)
    \/ InvoiceList(SomeInvoiceQueries)

Spec == Init /\ [][Next]_vars

---------------------------------------------------------------------------
(* The accounts: registration, login, logout and account creation with every *)
(* combination of the sample field values                                     *)

NextAuth ==
    \/ Tick
    \/ Finish
    \/ Register(RegisterBodies)
    \/ Login(LoginBodies)
    \/ Logout
    \/ UserCreate(UserCreateBodies)
    \/ UserRemove(SomeIds)

SpecAuth == Init /\ [][NextAuth]_vars

---------------------------------------------------------------------------
(* The list endpoints on a database that already holds rows: n accounts, n   *)
(* tax profiles (shared by the first three accounts) and n invoices (shared  *)
(* by the first three tax profiles, two by two), read with every sample      *)
(* query                                                                     *)

BigSeed == 101
SeedSizes == {0, 3, BigSeed}

RECURSIVE IntChars(_)
IntChars(n) ==
    IF n < 10 THEN <<DigitChars[n + 1]>>
    ELSE IntChars(n \div 10) \o <<DigitChars[(n % 10) + 1]>>

SeedEmail(i) ==
    IF i = 1 THEN E1 ELSE IF i = 2 THEN E2
    ELSE <<"u">> \o IntChars(i) \o <<"@", "b", ".", "c">>

SeedUsers(n) ==
    {[id |-> i, email |-> SeedEmail(i), password |-> hashPassword(P1).hash,
      name |-> IF i % 2 = 1 THEN N1 ELSE Null, createdAt |-> 0] : i \in 1..n}

SeedTaxProfiles(n) ==
    {[id |-> i, userId |-> IF i % 3 = 0 THEN 3 ELSE ((i - 1) % 2) + 1,
      name |-> IF i % 2 = 1 THEN N1 ELSE N2,
      tax_id_number |-> T1, address |-> A1] : i \in 1..n}

SeedInvoices(n) ==
    {[id |-> i, taxProfileId |-> (((i - 1) \div 2) % 3) + 1, amount |-> 50 * (i % 4),
      status |-> IF i % 3 = 0 THEN Draft ELSE IF i % 3 = 1 THEN Sent ELSE Paid,
      issuedAt |-> 0] : i \in 1..n}

InitList ==
    \E n \in SeedSizes :
        /\ users = SeedUsers(n)
        /\ taxProfiles = SeedTaxProfiles(n)
        /\ invoices = SeedInvoices(n)
        /\ nextUserId = n + 1
        /\ nextTaxProfileId = n + 1
        /\ nextInvoiceId = n + 1
        /\ now = 0
        /\ cookie = signJwt(1, 0)
        /\ bearer = signJwt(1, 0)
        /\ NoExchange
        /\ Started

NextList ==
    \/ Finish
    \/ UserList(UserQueries)
    \/ TaxProfileList(TaxProfileQueries)
    \/ InvoiceList(InvoiceQueries)

SpecList == InitList /\ [][NextList]_vars

---------------------------------------------------------------------------
(* Get, update and delete on a database that holds three accounts with one  *)
(* tax profile each and three invoices (two of the first profile, one of    *)
(* the second), one hour after the rows were created, with every sample id  *)
(* and update body                                                          *)

CrudSeed == 3

CrudIds == {<<"1">>, <<"2">>, <<"4">>, <<"x">>, <<"0">>, <<"-", "1">>, <<"1", ".", "5">>}

(* the ids an update is tried on: account, profile and invoice 2 are only   *)
(* read and deleted                                                         *)
UpdateIds == CrudIds \ {<<"2">>}

UserUpdates ==
    {[email |-> Undefined, password |-> Undefined, name |-> N2],
     [email |-> Undefined, password |-> PShort, name |-> Undefined]}
TaxProfileUpdates ==
    {[userId |-> Absent, name |-> Undefined, tax_id_number |-> T2, address |-> Undefined],
     [userId |-> Absent, name |-> <<>>, tax_id_number |-> Undefined, address |-> Undefined]}
InvoiceUpdates ==
    {[taxProfileId |-> Absent, amount |-> Undefined, status |-> Paid, issuedAt |-> Absent],
     [taxProfileId |-> Absent, amount |-> <<"2">>, status |-> Undefined, issuedAt |-> Num(0)],
     [taxProfileId |-> Absent, amount |-> <<"x">>, status |-> Undefined, issuedAt |-> Absent]}

InitCrud ==
    /\ users = SeedUsers(CrudSeed)
    /\ taxProfiles = SeedTaxProfiles(CrudSeed)
    /\ invoices = SeedInvoices(CrudSeed)
    /\ nextUserId = CrudSeed + 1
    /\ nextTaxProfileId = CrudSeed + 1
    /\ nextInvoiceId = CrudSeed + 1
    /\ now = 1
    /\ cookie = signJwt(1, 1)
    /\ bearer = signJwt(1, 1)
    /\ NoExchange
    /\ Started

NextCrud ==
    \/ Finish
    \/ UserGet(CrudIds)
    \/ UserUpdate(UpdateIds, UserUpdates)
    \/ UserRemove(CrudIds)
    \/ TaxProfileGet(CrudIds)
    \/ TaxProfileUpdate(UpdateIds, TaxProfileUpdates)
    \/ TaxProfileRemove(CrudIds)
    \/ InvoiceGet(CrudIds)
    \/ InvoiceUpdate(UpdateIds, InvoiceUpdates)
    \/ InvoiceRemove(CrudIds)

SpecCrud == InitCrud /\ [][NextCrud]_vars

---------------------------------------------------------------------------
(* Accounts: every operation on users, with updates that name an email *)

AccountUpdates ==
    {[email |-> E2, password |-> Undefined, name |-> Undefined],
     [email |-> Undefined, password |-> P2, name |-> N2]}

NextAccount ==
    \/ Finish
    \/ Register(SomeRegisterBodies)
    \/ Login(SomeLoginBodies)
    \/ Logout
    \/ UserCreate(SomeUserCreateBodies)
    \/ UserGet(SomeUserIds)
    \/ UserUpdate(SomeUserIds, AccountUpdates)
    \/ UserList(SomeUserQueries)
    \/ UserRemove(SomeIds)

SpecAccount == Init /\ [][NextAccount]_vars

(* the accounts of the next state keep the email they have now *)
EmailsKept ==
    \A u \in users : \A w \in users' : w.id = u.id => w.email = u.email

(* the request being answered is an update of account id that names email *)
UpdateNames(id, email) ==
    /\ req'.op = "PATCH /api/user/:id"
    /\ ran' = "user.update"
    /\ IsDigits(req'.in.id) /\ DigitsVal(req'.in.id) = id
    /\ req'.in.body.email = email

(* C23 as stated: no operation changes the email of an existing account *)
C23_AsStated == [][EmailsKept]_vars

C23_Step ==
    /\ \A u \in users : \A w \in users' :
          w.id = u.id /\ w.email # u.email =>
              /\ UpdateNames(u.id, w.email)
              /\ res'.status = 200
    /\ \A u \in users :
          /\ Idle
          /\ UpdateNames(u.id, req'.in.body.email)
          /\ IsEmail(req'.in.body.email)
          /\ \A v \in users : v.email # req'.in.body.email
          => \E w \in users' : w.id = u.id /\ w.email = req'.in.body.email

(* C23, amended: the email of an existing account is changed by an update  *)
(* of that account whose body names an email, and by nothing else: such an *)
(* update with a valid email that no account has sets it; register, login, *)
(* logout, create, get, list and updates naming no email keep every email  *)
C23_EmailChangedOnlyByUpdate == [][C23_Step]_vars

(* an account registered with one email now has the email an update named *)
C23_Witness ==
    /\ ran = "user.update"
    /\ res.status = 200
    /\ req.in.body.email = E2
    /\ \E u \in users : u.id = 1 /\ u.email = E2

---------------------------------------------------------------------------
(* Writes: creates, updates and deletes that name owners, stored or not,    *)
(* from a database holding the first account                               *)

(* an id that no row of the run ever has *)
Stranger == 9

WriteIds == {<<"1">>, <<"2">>}

WriteTaxProfileBodies ==
    {[userId |-> Num(u), name |-> N1, tax_id_number |-> T1, address |-> A1] :
        u \in {1, Stranger}}

WriteTaxProfileUpdates ==
    {[userId |-> Num(u), name |-> Undefined, tax_id_number |-> Undefined,
      address |-> Undefined] : u \in {2, Stranger}}

WriteInvoiceBodies ==
    {[taxProfileId |-> Num(1), amount |-> <<"1", ".", "5">>, status |-> Draft,
      issuedAt |-> Absent],
     [taxProfileId |-> Num(1), amount |-> <<"1", ".", "5">>, status |-> Undefined,
      issuedAt |-> Absent],
     [taxProfileId |-> Num(Stranger), amount |-> <<"2">>, status |-> Sent,
      issuedAt |-> Num(0)]}

WriteInvoiceUpdates ==
    {[taxProfileId |-> Num(Stranger), amount |-> Undefined, status |-> Undefined,
      issuedAt |-> Absent],
     [taxProfileId |-> Absent, amount |-> Undefined, status |-> Paid,
      issuedAt |-> Num(0)]}

InitWrite ==
    /\ users = SeedUsers(1)
    /\ taxProfiles = {}
    /\ invoices = {}
    /\ nextUserId = 2
    /\ nextTaxProfileId = 1
    /\ nextInvoiceId = 1
    /\ now = 0
    /\ cookie = signJwt(1, 0)
    /\ bearer = signJwt(1, 0)
    /\ NoExchange
    /\ Started

NextWrite ==
    \/ Tick
    \/ Finish
    \/ UserCreate(SomeUserCreateBodies)
    \/ UserGet(WriteIds)
    \/ UserUpdate(WriteIds, SomeUserUpdates)
    \/ UserList(SomeUserQueries)
    \/ UserRemove(WriteIds)
    \/ TaxProfileCreate(WriteTaxProfileBodies)
    \/ TaxProfileUpdate(WriteIds, WriteTaxProfileUpdates)
    \/ TaxProfileRemove(WriteIds)
    \/ InvoiceCreate(WriteInvoiceBodies)
    \/ InvoiceUpdate(WriteIds, WriteInvoiceUpdates)
    \/ InvoiceRemove(WriteIds)
    \/ InvoiceList(SomeInvoiceQueries)

SpecWrite == InitWrite /\ [][NextWrite]_vars

(* a create of an invoice that the gate passes, for a stored tax profile   *)
(* and with a well-formed amount                                           *)
CreatesInvoice ==
    /\ Idle
    /\ req'.op = "POST /api/invoices"
    /\ Gate(req').pass
    /\ IsPositiveInt(req'.in.taxProfileId)
    /\ \E p \in taxProfiles : p.id = req'.in.taxProfileId.v
    /\ IsAmount(req'.in.amount)

Added == invoices' \ invoices

C24_Step ==
    /\ CreatesInvoice /\ req'.in.status = Undefined =>
          /\ res'.status = 201
          /\ \E i \in Added : i.status = Draft
    /\ CreatesInvoice /\ req'.in.status # Undefined /\ req'.in.issuedAt = Absent =>
          /\ res'.status = 201
          /\ \E i \in Added : i.issuedAt = now

(* C24: creating an invoice with a valid taxProfileId and amount but no    *)
(* status succeeds and stores status draft; with no issuedAt the invoice   *)
(* stored has the time of creation as issuedAt                             *)
C24_InvoiceDefaults == [][C24_Step]_vars

Exposes(object) == "password" \in DOMAIN object
Succeeded == res.status \in {200, 201}
Listed == res.body.data.data

(* C25: no response carries an account's password or its hash: the user    *)
(* objects answered by create, get, update and list on users, and the user *)
(* objects embedded in the invoices of an invoice list, have no password   *)
(* field                                                                   *)
C25_NoPasswordInResponses ==
    /\ Succeeded /\ ran \in {"user.create", "user.get", "user.update"} =>
          ~Exposes(res.body.data)
    /\ Succeeded /\ ran = "user.list" =>
          \A k \in DOMAIN Listed : ~Exposes(Listed[k])
    /\ Succeeded /\ ran = "invoice.list" =>
          \A k \in DOMAIN Listed : ~Exposes(Listed[k].taxProfile.user)

---------------------------------------------------------------------------
(* Filters: the lists of tax profiles and invoices with filter values,      *)
(* well-formed and malformed, on the seeded database                       *)

FilterTaxProfileQueries ==
    [page : {Undefined, <<"2">>}, limit : {Undefined, <<"1">>}, name : {Undefined},
     userId : {Undefined, <<"1">>, <<"x">>, <<"0">>, <<"-", "1">>},
     tax_id_number : {Undefined}]

FilterInvoiceQueries ==
    [page : {Undefined, <<"2">>}, limit : {Undefined, <<"1">>}, status : {Undefined},
     email : {Undefined}, minAmount : {Undefined, <<"0", ".", "5">>, <<"x">>},
     maxAmount : {Undefined, <<"1">>, <<"x">>}]

NextFilter ==
    \/ Finish
    \/ UserList(SomeUserQueries)
    \/ TaxProfileGet(CrudIds)
    \/ InvoiceGet(CrudIds)
    \/ TaxProfileList(FilterTaxProfileQueries)
    \/ InvoiceList(FilterInvoiceQueries)

SpecFilter == InitCrud /\ [][NextFilter]_vars

---------------------------------------------------------------------------
(* Races: a list of invoices or tax profiles whose two reads, issued by     *)
(* Promise.all on the connection pool, are taken one at a time while the   *)
(* requests of another client write                                       *)

TaxProfileWhere(q) ==
    {p \in taxProfiles :
        /\ Truthy(q.name) => Contains(p.name, q.name)
        /\ Truthy(q.userId) => p.userId = validateNumericId(q.userId, "ID").id
        /\ Truthy(q.tax_id_number) => Contains(p.tax_id_number, q.tax_id_number)}

Where(op, q) ==
    IF op = "invoice.list" THEN InvoiceWhere(InvoiceFilter(q)) ELSE TaxProfileWhere(q)

(* prisma.invoice.count({ where }), prisma.taxProfile.count({ where }) *)
countMutAll(op, q) ==
    Cardinality(IF op = "invoice.list" THEN invoices ELSE taxProfiles)
count(op, q) == Cardinality(Where(op, q))

(* prisma.invoice.findMany, prisma.taxProfile.findMany of the handlers *)
page(op, q) ==
    LET limit == NumberOr(q.limit, 10)
        skip == (NumberOr(q.page, 1) - 1) * limit
    IN  IF op = "invoice.list"
        THEN findMany(OrderDesc({<<i.issuedAt, i.id, WithOwner(i)>> :
                                    i \in Where(op, q)}), skip, limit)
        ELSE findMany(OrderDesc({<<p.id, p.id, p>> : p \in Where(op, q)}), skip, limit)

RaceQueries ==
    {[op |-> "invoice.list",
      in |-> [page |-> Undefined, limit |-> Undefined, status |-> st, email |-> Undefined,
              minAmount |-> Undefined, maxAmount |-> Undefined]] :
        st \in {Undefined, Sent}}
    \cup
    {[op |-> "taxProfile.list",
      in |-> [page |-> Undefined, limit |-> Undefined, name |-> Undefined,
              userId |-> u, tax_id_number |-> Undefined]] : u \in {Undefined, <<"1">>}}

(* a list handler at its await: which reads are done, and their results;   *)
(* matching and written are kept for the claims: the rows that matched at  *)
(* the page read, and the rows of the table written since the first read   *)
ListCall(l) ==
    [op |-> l.op, in |-> l.in, counted |-> FALSE, paged |-> FALSE, total |-> 0,
     found |-> [threw |-> FALSE, rows |-> <<>>], matching |-> 0, written |-> 0,
     res |-> NoRes]

ListBegin ==
    /\ Alive
    /\ calls = {}
    /\ \E l \in RaceQueries : calls' = {ListCall(l)}
    /\ UNCHANGED <<store, client, now, exchange, proc, limiter>>

CountRead ==
    /\ Alive
    /\ \E c \in calls :
          /\ ~c.counted
          /\ calls' = (calls \ {c}) \cup
                         {[c EXCEPT !.counted = TRUE, !.total = count(c.op, c.in)]}
    /\ UNCHANGED <<store, client, now, exchange, proc, limiter>>

PageRead ==
    /\ Alive
    /\ \E c \in calls :
          /\ ~c.paged
          /\ calls' = (calls \ {c}) \cup
                         {[c EXCEPT !.paged = TRUE, !.found = page(c.op, c.in),
                                    !.matching = Cardinality(Where(c.op, c.in))]}
    /\ UNCHANGED <<store, client, now, exchange, proc, limiter>>

(* both promises have settled: sendSuccess(res, { page, limit, total, data }) *)
ListAnswer ==
    /\ Alive
    /\ \E c \in calls :
          /\ c.counted /\ c.paged /\ c.res = NoRes
          /\ calls' = (calls \ {c}) \cup
                {[c EXCEPT !.res =
                     IF c.found.threw THEN sendError("Internal server error", 500, now)
                     ELSE sendSuccess([page |-> NumberOr(c.in.page, 1),
                                       limit |-> NumberOr(c.in.limit, 10),
                                       total |-> c.total, data |-> c.found.rows],
                                      200, now)]}
    /\ UNCHANGED <<store, client, now, exchange, proc, limiter>>

ListEnd ==
    /\ \E c \in calls : c.res # NoRes /\ calls' = calls \ {c}
    /\ UNCHANGED <<store, client, now, exchange, proc, limiter>>

(* rows of the table a call lists that the step adds or removes *)
Written(op) ==
    IF op = "invoice.list"
    THEN (invoices' \ invoices) \cup (invoices \ invoices')
    ELSE (taxProfiles' \ taxProfiles) \cup (taxProfiles \ taxProfiles')

(* a request served while list handlers are suspended *)
Meanwhile(r) ==
    /\ App(r)
    /\ calls' = {IF c.counted # c.paged
                 THEN [c EXCEPT !.written = @ + Cardinality(Written(c.op))]
                 ELSE c : c \in calls}
    /\ UNCHANGED limiter

RaceCreate ==
    \E r \in GuardedRequests("POST /api/taxProfiles", SomeTaxProfileBodies)
              \cup GuardedRequests("POST /api/invoices", SomeInvoiceBodies) :
        Meanwhile(r)

RaceDelete ==
    \E r \in GuardedRequests("DELETE /api/invoices/:id", [id : {<<"1">>, <<"3">>}]) :
        Meanwhile(r)

RaceCascade ==
    \E r \in GuardedRequests("DELETE /api/taxProfiles/:id", [id : {<<"1">>}])
              \cup GuardedRequests("DELETE /api/user/:id", [id : {<<"1">>}]) :
        Meanwhile(r)

InitRace == InitCrud \/ InitWrite

NextRace ==
    \/ Finish
    \/ ListBegin
    \/ CountRead
    \/ PageRead
    \/ ListAnswer
    \/ ListEnd
    \/ RaceCreate
    \/ RaceDelete
    \/ RaceCascade

SpecRace == InitRace /\ [][NextRace]_vars

BothRead(c) == c.counted /\ c.paged
Apart(a, b) == IF a >= b THEN a - b ELSE b - a

---------------------------------------------------------------------------
(* Concurrent registrations: register suspended at each of its two awaits,  *)
(* prisma.user.findUnique and prisma.user.create, for several clients     *)

(* register requests in flight at once *)
MaxRegisters == 3

Registrants == 1..MaxRegisters

RegisterCall(k, body) ==
    [k |-> k, op |-> "auth.register", in |-> body, stage |-> "findUnique",
     existing |-> FALSE, res |-> NoRes]

Began(k) == \E c \in calls : c.k = k

(* POST /api/auth/register arrives: the handler runs to its first await *)
RegisterBegin ==
    /\ Alive
    /\ \E k \in Registrants, email \in Emails :
          /\ ~Began(k)
          /\ \A j \in Registrants : j < k => Began(j)
          /\ calls' = calls \cup
                {RegisterCall(k, [email |-> email, password |-> P1, name |-> N1])}
    /\ UNCHANGED <<store, client, now, exchange, proc, limiter>>

(* findUnique({ where: { email } }) settles: 409 when the account exists *)
RegisterRead ==
    /\ Alive
    /\ \E c \in calls :
          /\ c.stage = "findUnique"
          /\ calls' = (calls \ {c}) \cup
                {IF UserByEmail(c.in.email) # {}
                 THEN [c EXCEPT !.stage = "answered", !.existing = TRUE,
                                !.res = sendError("Email already used", 409, now)]
                 ELSE [c EXCEPT !.stage = "create"]}
    /\ UNCHANGED <<store, client, now, exchange, proc, limiter>>

(* user.create settles: the row is inserted and the handler answers 201    *)
(* with a token in body and cookie, or "User_email_key" rejects it (P2002) *)
(* and the catch answers 409                                               *)
RegisterCreate ==
    /\ Alive
    /\ \E c \in calls :
          LET user == [id |-> nextUserId, email |-> c.in.email,
                       password |-> hashPassword(c.in.password).hash,
                       name |-> OrNull(c.in.name), createdAt |-> now]
              token == signJwt(user.id, now)
          IN  /\ c.stage = "create"
              /\ nextUserId' = nextUserId + 1
              /\ IF EmailTaken(c.in.email)
                 THEN /\ users' = users
                      /\ calls' = (calls \ {c}) \cup
                            {[c EXCEPT !.stage = "answered",
                                       !.res = sendError("Email already used", 409, now)]}
                 ELSE /\ users' = users \cup {user}
                      /\ calls' = (calls \ {c}) \cup
                            {[c EXCEPT !.stage = "answered",
                                       !.res = AuthCookie(
                                           sendSuccess([token |-> token,
                                                        user |-> [id |-> user.id,
                                                                  email |-> c.in.email,
                                                                  name |-> c.in.name]],
                                                       201, now), token)]}
    /\ UNCHANGED <<taxProfiles, invoices, nextTaxProfileId, nextInvoiceId, client, now,
                   exchange, proc, limiter>>

NextRegister ==
    \/ RegisterBegin
    \/ RegisterRead
    \/ RegisterCreate

SpecRegister == Init /\ [][NextRegister]_vars

For(email) == {c \in calls : c.in.email = email}
Answered(c) == c.res # NoRes
Accepted(c) == c.res.status = 201 /\ c.res.body.data.token = c.res.setCookie
Refused(c) == c.res.status = 409 /\ c.res.body.error = "Email already used"

---------------------------------------------------------------------------
(* Rate limiting: requests of one client under /api/ behind the limiter,    *)
(* and the health check beside it                                          *)

ApiRequests ==
    GuardedRequests("GET /api/user/:id", [id : SomeUserIds])
    \cup GuardedRequests("GET /api/invoices", SomeInvoiceQueries)
    \cup GuardedRequests("GET /api/invoices/:id", [id : SomeIds])

Api == \E r \in ApiRequests : Limited(r)

NextLimit ==
    \/ Finish
    \/ Api
    \/ Health
    \/ WindowExpires

SpecLimit == InitCrud /\ [][NextLimit]_vars

UnderApi(op) == op \in DOMAIN Routes
Arrives == Idle /\ ~Idle'
Counted == limiter.hits

C22_Step ==
    /\ Arrives /\ UnderApi(req'.op) /\ Counted < LimitMax =>
          /\ res'.status # 429
          /\ limiter'.hits = Counted + 1
          /\ limiter'.remaining = LimitMax - Counted - 1
          /\ Gate(req').pass => ran' # "none"
    /\ Arrives /\ UnderApi(req'.op) /\ Counted >= LimitMax =>
          /\ res'.status = 429
          /\ ran' = "none"
          /\ limiter'.remaining = 0
          /\ store' = store
          /\ client' = client
    /\ Arrives /\ ~UnderApi(req'.op) =>
          /\ res'.status = 200
          /\ limiter' = limiter
    /\ ~Arrives /\ limiter' # limiter =>
          /\ limiter'.hits = 0
          /\ limiter'.remaining = LimitMax

(* C22: in one window the first max requests of the client under /api/,    *)
(* whatever the endpoint, are passed on and the reported remaining count   *)
(* falls by one per request to 0; every further request is answered 429    *)
(* and reaches no handler; when the window has expired the count starts    *)
(* again; GET /health is answered whatever the count                       *)
C22_RateLimit == [][C22_Step]_vars

(* the request after the last one allowed, answered by the limiter *)
C22_Witness ==
    /\ res = TooManyRequests
    /\ limiter.hits = LimitMax + 1
    /\ limiter.remaining = 0

(* the health check answered with the window used up *)
C22_WitnessHealth ==
    /\ req.op = "GET /health"
    /\ res.status = 200
    /\ limiter.hits > LimitMax

---------------------------------------------------------------------------
(* Shutdown: the SIGTERM and SIGINT handlers of index.ts, on the seeded     *)
(* database, while requests arrive and complete                             *)

(* signals delivered to one process *)
MaxSignals == 2

(* setTimeout(..., 10000): seconds until the forced exit *)
ShutdownTimeout == 10

(* the body of either signal handler: server.close(callback), setTimeout *)
shutdownMutNoTimer(p) ==
    [p EXCEPT !.listening = FALSE, !.closing = @ + 1]
shutdown(p) ==
    [p EXCEPT !.listening = FALSE, !.closing = @ + 1,
              !.timers = @ \cup {p.t + ShutdownTimeout}]

Sigterm ==
    /\ Alive
    /\ proc.closing < MaxSignals
    /\ proc' = shutdown(proc)
    /\ UNCHANGED <<store, client, now, exchange, limiter, calls>>

Sigint ==
    /\ Alive
    /\ proc.closing < MaxSignals
    /\ proc' = shutdown(proc)
    /\ UNCHANGED <<store, client, now, exchange, limiter, calls>>

(* the server's 'close' event: it no longer listens and no request is in   *)
(* flight; the callback given to server.close starts and awaits            *)
(* prisma.$disconnect()                                                    *)
ServerClosed ==
    /\ Alive
    /\ ~proc.listening
    /\ proc.closing > 0
    /\ proc.stage = "none"
    /\ Idle
    /\ calls = {}
    /\ proc' = [proc EXCEPT !.stage = "disconnecting"]
    /\ UNCHANGED <<store, client, now, exchange, limiter, calls>>

(* prisma.$disconnect() settles: the connection is released, or the call   *)
(* throws and the catch logs it                                            *)
Disconnect ==
    /\ Alive
    /\ proc.stage = "disconnecting"
    /\ \E released \in BOOLEAN :
          proc' = [proc EXCEPT !.stage = "settled",
                               !.connected = IF released THEN FALSE ELSE @]
    /\ UNCHANGED <<store, client, now, exchange, limiter, calls>>

(* process.exit(0) at the end of the callback *)
ExitClean ==
    /\ Alive
    /\ proc.stage = "settled"
    /\ proc' = processExit(proc, 0)
    /\ UNCHANGED <<store, client, now, exchange, limiter, calls>>

(* a timer set by a signal handler fires: process.exit(1) *)
Timeout ==
    /\ Alive
    /\ \E d \in proc.timers : proc.t >= d
    /\ proc' = processExit(proc, 1)
    /\ UNCHANGED <<store, client, now, exchange, limiter, calls>>

(* a second passes on the clock of the timers; a timer that is due fires   *)
(* before the next second                                                  *)
Second ==
    /\ Alive
    /\ proc.timers # {}
    /\ \A d \in proc.timers : proc.t < d
    /\ proc' = [proc EXCEPT !.t = @ + 1]
    /\ UNCHANGED <<store, client, now, exchange, limiter, calls>>

NextShutdown ==
    \/ Finish
    \/ UserGet(SomeUserIds)
    \/ InvoiceList(SomeInvoiceQueries)
    \/ Sigterm
    \/ Sigint
    \/ ServerClosed
    \/ Disconnect
    \/ ExitClean
    \/ Timeout
    \/ Second

SpecShutdown == InitCrud /\ [][NextShutdown]_vars

(* time passes and due timers fire; nothing makes a request complete *)
FairShutdown == SpecShutdown /\ WF_vars(Second) /\ WF_vars(Timeout)

Signalled == proc.closing > 0
Exited(code) == proc.exited /\ proc.code = code
InFlight == ~Idle \/ calls # {}
Deadlines == proc.timers

(* the order of a shutdown, and its deadline *)
C21_Order ==
    /\ Signalled => ~proc.listening
    /\ proc.stage # "none" => Signalled
    /\ ~proc.connected => ~InFlight /\ proc.stage = "settled"
    /\ Exited(0) => proc.stage = "settled"
    /\ Signalled /\ Exited(1) => \E d \in Deadlines : proc.t >= d
    /\ Signalled => \A d \in Deadlines : proc.t <= d

(* the store is released, and the callback started, only with no request   *)
(* in flight                                                               *)
C21_Drain ==
    /\ proc'.stage # proc.stage => ~InFlight
    /\ proc'.connected # proc.connected => ~InFlight

(* C21: after SIGTERM or SIGINT the process always terminates: it stops    *)
(* listening, then with no request in flight disconnects the store, then   *)
(* exits with code 0, or with code 1 when the 10-second timer fires first; *)
(* the store is never disconnected under a request in flight and the       *)
(* process never lives past the deadline                                   *)
C21_GracefulShutdown ==
    /\ []C21_Order
    /\ [][C21_Drain]_vars
    /\ (Signalled ~> proc.exited)

(* after two signals and some seconds the store was disconnected and the   *)
(* process exited 0                                                        *)
C21_Witness ==
    /\ Exited(0)
    /\ ~proc.connected
    /\ proc.closing = MaxSignals
    /\ proc.t > 0

(* the forced exit: the deadline fires with a request still in flight *)
C21_WitnessForced ==
    /\ Exited(1)
    /\ Signalled
    /\ InFlight

---------------------------------------------------------------------------
(* Properties of the gate (C1, C2), checked under Spec                       *)

(* the endpoints the specification places behind the gate: every resource    *)
(* operation and logout                                                      *)
ProtectedOps ==
    {"POST /api/auth/logout"} \cup
    {m \o e : m \in {"POST ", "GET "}, e \in {"/api/user", "/api/taxProfiles", "/api/invoices"}} \cup
    {m \o e \o "/:id" : m \in {"GET ", "PATCH ", "DELETE "},
                        e \in {"/api/user", "/api/taxProfiles", "/api/invoices"}}

ProtectedHandlers ==
    {"auth.logout"} \cup
    {e \o "." \o f : e \in {"user", "taxProfile", "invoice"},
                     f \in {"create", "list", "get", "update", "remove"}}

(* the token a request carries: the second word of the Authorization header  *)
(* when the header has one, otherwise the access_token cookie                *)
Carried(r) ==
    IF r.authorization.present /\ Len(r.authorization.parts) >= 2
    THEN r.authorization.parts[2] ELSE r.cookie

CarriesNoToken(r) ==
    /\ ~r.authorization.present \/ Len(r.authorization.parts) < 2
    /\ r.cookie.kind = "undefined"

Malformed(t) == t.kind = "garbage"
Tampered(t) == t.kind = "jwt" /\ t.sig # "valid"
Expired(t, at) == t.kind = "jwt" /\ t.sig = "valid" /\ at >= t.exp
FailsVerification(t, at) == Malformed(t) \/ Tampered(t) \/ Expired(t, at)
Verifies(t, at) == t.kind = "jwt" /\ t.sig = "valid" /\ at < t.exp

Refusal(message) ==
    [status |-> 401, body |-> [error |-> message], setCookie |-> UndefTok]

Unauthenticated == ran = "none" /\ reqUser = NoPayload

(* C1: on every route behind the gate, a request with no Authorization       *)
(* header token and no access_token cookie is answered 401 "Missing token",  *)
(* and a request whose token is malformed, tampered with or expired is       *)
(* answered 401 "Invalid token"; in both cases the handler behind the gate   *)
(* is not invoked and the request stays unauthenticated                      *)
C1_GateRefuses ==
    req.op \in ProtectedOps =>
        /\ CarriesNoToken(req) => res = Refusal("Missing token") /\ Unauthenticated
        /\ FailsVerification(Carried(req), now) =>
              res = Refusal("Invalid token") /\ Unauthenticated

(* an expired token presented to a resource operation was refused *)
C1_Witness ==
    /\ req.op = "DELETE /api/invoices/:id"
    /\ Expired(Carried(req), now)
    /\ res.status = 401
    /\ ran = "none"

(* C2: a resource operation or logout runs only for a request that carries   *)
(* a token that verifies, as the subject of that token; a request to one of  *)
(* these endpoints that carries no such token is answered by the gate alone: *)
(* the answer is determined by the request and the clock, and the store is   *)
(* left as it was, whatever it holds                                         *)
C2_Step ==
    /\ ran' \in ProtectedHandlers =>
          /\ Verifies(Carried(req'), now')
          /\ reqUser'.sub = Carried(req').sub
    /\ (req'.op \in ProtectedOps /\ ~Verifies(Carried(req'), now')) =>
          /\ ran' = "none"
          /\ res' \in {Refusal("Missing token"), Refusal("Invalid token")}
          /\ UNCHANGED store
    /\ (ran' # "none" /\ req'.op \notin ProtectedOps) =>
          req'.op \in {"POST /api/auth/register", "POST /api/auth/login"}

C2_OnlyAuthenticatedRun == [][C2_Step]_vars

(* an invoice that exists was asked for without a valid token and refused *)
C2_Witness ==
    /\ req.op = "GET /api/invoices/:id"
    /\ req.in.id = <<"1">>
    /\ \E i \in invoices : i.id = 1
    /\ ~Verifies(Carried(req), now)
    /\ res.status = 401
    /\ ran = "none"

---------------------------------------------------------------------------
(* Properties of registration, user creation and login (C3..C6), checked     *)
(* under SpecAuth                                                            *)

(* an account with this email is stored *)
Held(email) == \E u \in users : u.email = email

(* the serving step of one operation *)
Serving(op) == Idle /\ req'.op = op

(* the response carries no token and sets no cookie *)
NoTokenIssued(r) == "data" \notin DOMAIN r.body /\ r.setCookie = UndefTok

(* the step stored exactly one new account, with the email of the request,   *)
(* and answered 201 with a token that verifies to the id of that account     *)
Registered ==
    /\ res'.status = 201
    /\ \E u \in users' :
          /\ u \notin users
          /\ users' = users \cup {u}
          /\ \A v \in users : v.id # u.id
          /\ u.email = req'.in.email
          /\ Verifies(res'.body.data.token, now')
          /\ res'.body.data.token.sub = u.id

C4_DuplicateRefused ==
    [][(Serving("POST /api/auth/register") /\ Held(req'.in.email)) =>
            /\ res'.status = 409
            /\ res'.body.error = "Email already used"
            /\ NoTokenIssued(res')
            /\ UNCHANGED <<store, client>>]_vars

(* a registration with a held email and no password was refused with 409 *)
C4_Witness ==
    /\ req.op = "POST /api/auth/register"
    /\ Held(req.in.email)
    /\ req.in.password = Undefined
    /\ res.status = 409

(* C5: POST /api/user with valid input whose email a stored account already  *)
(* holds returns 409, not 500, and stores no account                         *)
C5_CreateDuplicate409 ==
    [][(Serving("POST /api/user") /\ ran' = "user.create"
            /\ IsEmail(req'.in.email) /\ IsPassword(req'.in.password)
            /\ IsString(req'.in.name) /\ Held(req'.in.email)) =>
            /\ res'.status = 409
            /\ users' = users]_vars

(* the plaintext the stored hash was made from *)
Matches(password, hash) == IsString(password) /\ hash = [bcrypt |-> password]

GoodLogin == \E u \in users : u.email = req'.in.email /\ Matches(req'.in.password, u.password)

LoggedIn ==
    /\ res'.status = 200
    /\ \E u \in users :
          /\ u.email = req'.in.email
          /\ Verifies(res'.body.data.token, now')
          /\ res'.body.data.token.sub = u.id
          /\ res'.setCookie = res'.body.data.token
    /\ UNCHANGED store

InvalidCredentials ==
    /\ res'.status = 401
    /\ res'.body.error = "Invalid credentials"

WellFormedLogin ==
    /\ IsString(req'.in.email)
    /\ Held(req'.in.email) => IsString(req'.in.password)

---------------------------------------------------------------------------
(* Properties of the list operations (C7..C10), checked under SpecList       *)

ListHandlers == {"user.list", "taxProfile.list", "invoice.list"}

(* the rows of the entity a list handler reads *)
Table(handler) ==
    IF handler = "user.list" THEN users
    ELSE IF handler = "taxProfile.list" THEN taxProfiles
    ELSE invoices

(* a page or limit parameter that is absent, not a number, or less than 1 *)
Unusable(raw) == ToNumber(raw).nan \/ ToNumber(raw).v < 1

(* the request names no filter: it has page and limit parameters only *)
Unfiltered(q) == \A f \in DOMAIN q \ {"page", "limit"} : q[f] = Undefined

(* C7: a list request for users, tax profiles or invoices that asks for a    *)
(* limit above 100 is served with limit 100 and at most 100 items            *)
C7_LimitCapped ==
    (ran \in ListHandlers /\ ~Unusable(req.in.limit) /\ ToNumber(req.in.limit).v > 100) =>
        /\ res.status = 200
        /\ res.body.data.limit = 100
        /\ Len(res.body.data.data) <= 100

(* C8: on every list endpoint a page that is absent, non-numeric or below 1  *)
(* is treated as 1 and a limit that is absent, non-numeric or below 1 as 10, *)
(* and the request is answered 200                                           *)
C8_PageLimitNormalised ==
    ran \in ListHandlers =>
        /\ res.status = 200
        /\ Unusable(req.in.page) => res.body.data.page = 1
        /\ Unusable(req.in.limit) => res.body.data.limit = 10

(* C9: an answered list request with no filter carries a total equal to the  *)
(* number of stored rows of that entity, for users, tax profiles and         *)
(* invoices alike                                                            *)
C9_TotalIsRowCount ==
    (ran \in ListHandlers /\ res.status = 200 /\ Unfiltered(req.in)) =>
        /\ "total" \in DOMAIN res.body.data
        /\ res.body.data.total = Cardinality(Table(ran))

(* the invoice satisfies the filters the query names *)
Satisfies(i, q) ==
    LET owner == CHOOSE u \in users :
                    \E p \in taxProfiles : p.id = i.taxProfileId /\ p.userId = u.id
    IN  /\ Truthy(q.status) => i.status = q.status
        /\ Truthy(q.email) => ContainsInsensitive(owner.email, q.email)
        /\ Truthy(q.minAmount) => i.amount >= Decimal(q.minAmount)
        /\ Truthy(q.maxAmount) => i.amount <= Decimal(q.maxAmount)

(* C10: every invoice list response carries a total equal to the number of   *)
(* stored invoices that satisfy the filter, and                              *)
(* min(limit, max(0, total - (page - 1) * limit)) items                      *)
C10_InvoicePageSize ==
    ran = "invoice.list" =>
        /\ res.status = 200
        /\ res.body.data.total = Cardinality({i \in invoices : Satisfies(i, req.in)})
        /\ Len(res.body.data.data) =
              Min(res.body.data.limit,
                  Max(0, res.body.data.total
                           - (res.body.data.page - 1) * res.body.data.limit))

---------------------------------------------------------------------------
(* Properties of the list filters (C11, C12), checked under SpecList         *)

(* the stored invoices that satisfy every constraint the query supplies *)
Matching(q) == {i \in invoices : Satisfies(i, q)}

(* the ids of the items of an answered list *)
ListedIds(items) == {items[k].id : k \in DOMAIN items}

(* C11: an answered invoice list holds only invoices that satisfy every      *)
(* supplied constraint (status equal, owner email containing the text,       *)
(* minAmount <= amount <= maxAmount, an absent constraint imposing nothing), *)
(* holds none twice, holds as many as the page has room for, and holds all   *)
(* of them when one page has room for all                                    *)
C11_InvoiceFilters ==
    (ran = "invoice.list" /\ res.status = 200) =>
        LET d == res.body.data
            matching == {i.id : i \in Matching(req.in)}
            n == Cardinality(matching)
        IN  /\ ListedIds(d.data) \subseteq matching
            /\ Cardinality(ListedIds(d.data)) = Len(d.data)
            /\ (d.page >= 1 /\ d.limit >= 1) =>
                    Len(d.data) = Min(d.limit, Max(0, n - (d.page - 1) * d.limit))
            /\ (d.page = 1 /\ d.limit >= n) => ListedIds(d.data) = matching

(* all four constraints supplied, both amount bounds met exactly by listed   *)
(* invoices, and each constraint leaves some stored invoice out              *)
C11_Witness ==
    /\ ran = "invoice.list"
    /\ res.status = 200
    /\ \A f \in {"status", "email", "minAmount", "maxAmount"} : Truthy(req.in[f])
    /\ \E k \in DOMAIN res.body.data.data :
          res.body.data.data[k].amount = Decimal(req.in.minAmount)
    /\ \E k \in DOMAIN res.body.data.data :
          res.body.data.data[k].amount = Decimal(req.in.maxAmount)
    /\ \E i \in invoices : i.status # req.in.status
    /\ \E i \in invoices : i.amount < Decimal(req.in.minAmount)
    /\ \E i \in invoices : i.amount > Decimal(req.in.maxAmount)
    /\ \E i \in invoices :
          ~Satisfies(i, [req.in EXCEPT !.status = Undefined, !.minAmount = Undefined,
                                       !.maxAmount = Undefined])

(* the text field, compared without regard to letter case, contains f *)
HasText(field, f) == field # Null /\ ContainsInsensitive(field, f)

(* C12: an answered account list whose first page has room for every account *)
(* holds exactly the accounts whose email and name contain the supplied      *)
(* filter texts, compared without regard to letter case                      *)
C12_UserFilterInsensitive ==
    (ran = "user.list" /\ res.status = 200 /\ res.body.data.page = 1
       /\ res.body.data.limit >= Cardinality(users)) =>
        ListedIds(res.body.data.data) =
            {u.id : u \in {v \in users :
                             /\ Truthy(req.in.email) => HasText(v.email, req.in.email)
                             /\ Truthy(req.in.name) => HasText(v.name, req.in.name)}}

---------------------------------------------------------------------------
(* Properties of get, update and delete by id (C13..C17)                     *)

StoredIds(T) == {e.id : e \in T}

(* the ids the table has handed out that name no stored row *)
GoneUsers == (1..(nextUserId - 1)) \ StoredIds(users)
GoneTaxProfiles == (1..(nextTaxProfileId - 1)) \ StoredIds(taxProfiles)
GoneInvoices == (1..(nextInvoiceId - 1)) \ StoredIds(invoices)

(* the :id parameter is the decimal numeral of a positive integer *)
WellFormedId(raw) == IsDigits(raw) /\ DigitsVal(raw) >= 1

NotFound(r) == r.status = 404 /\ r.body.success = FALSE /\ r.body.error = "Not found"

(* the get that ran with a well-formed id answered 200 with the row of that  *)
(* id when the table holds it and 404 "Not found" when it does not           *)
GetAnswers(handler, T, r, q) ==
    (ran' = handler /\ WellFormedId(q.in.id)) =>
        IF DigitsVal(q.in.id) \in StoredIds(T)
        THEN r.status = 200 /\ r.body.data.id = DigitsVal(q.in.id)
        ELSE NotFound(r)

C13_Step ==
    LET n == DigitsVal(req'.in.id)
    IN  \* a successful delete removes the row, everything it owns, nothing else
        /\ (ran' = "user.remove" /\ res'.status = 204) =>
              /\ n \in StoredIds(users)
              /\ users' = {u \in users : u.id # n}
              /\ taxProfiles' = {p \in taxProfiles : p.userId # n}
              /\ invoices' = {i \in invoices :
                                \E p \in taxProfiles' : p.id = i.taxProfileId}
        /\ (ran' = "taxProfile.remove" /\ res'.status = 204) =>
              /\ n \in StoredIds(taxProfiles)
              /\ users' = users
              /\ taxProfiles' = {p \in taxProfiles : p.id # n}
              /\ invoices' = {i \in invoices : i.taxProfileId # n}
        /\ (ran' = "invoice.remove" /\ res'.status = 204) =>
              /\ n \in StoredIds(invoices)
              /\ users' = users
              /\ taxProfiles' = taxProfiles
              /\ invoices' = {i \in invoices : i.id # n}
        \* an id that names no row any more never names one again
        /\ GoneUsers \subseteq GoneUsers'
        /\ GoneTaxProfiles \subseteq GoneTaxProfiles'
        /\ GoneInvoices \subseteq GoneInvoices'
        \* a get finds exactly the rows that are stored
        /\ GetAnswers("user.get", users', res', req')
        /\ GetAnswers("taxProfile.get", taxProfiles', res', req')
        /\ GetAnswers("invoice.get", invoices', res', req')

(* C13: a successful delete of an account, tax profile or invoice removes    *)
(* that row and every row it owns (account -> tax profiles -> invoices) and  *)
(* no other; the id of a removed row is never given to a later row; and a    *)
(* get answers 404 "Not found" for every id that names no stored row and 200 *)
(* for every stored one: so each later get of the deleted id or of anything  *)
(* it owned answers 404 for the rest of the execution, and everything else   *)
(* stays retrievable                                                         *)
C13_DeletedStaysGone == [][C13_Step]_vars

(* the first account was deleted with its tax profile and invoice, a later   *)
(* account got id 2, and a get of the invoice answers 404                    *)
C13_Witness ==
    /\ ran = "invoice.get"
    /\ NotFound(res)
    /\ DigitsVal(req.in.id) \in GoneInvoices
    /\ GoneTaxProfiles # {}
    /\ 1 \in GoneUsers
    /\ 2 \in StoredIds(users)

Entities == {"user", "taxProfile", "invoice"}

Rows(e) ==
    CASE e = "user" -> users
      [] e = "taxProfile" -> taxProfiles
      [] e = "invoice" -> invoices

(* the handler of the entity's get, update or remove *)
Handler(e, verb) == e \o "." \o verb

(* the request served names, by a well-formed id, no stored row of e *)
NamesNothing(e, q) ==
    WellFormedId(q.in.id) /\ DigitsVal(q.in.id) \notin StoredIds(Rows(e))

C14_Step ==
    \A e \in Entities :
        (ran' = Handler(e, "remove") /\ NamesNothing(e, req')) =>
            res'.status = 404 /\ store' = store

(* C14: for accounts, tax profiles and invoices alike, a delete of a         *)
(* well-formed id that names no stored row is answered 404 and leaves the    *)
(* store unchanged, whatever was deleted before                              *)
C14_DeleteMissing404 == [][C14_Step]_vars

(* the body passes the entity's update schema *)
ValidUpdate(e, b) ==
    CASE e = "user" -> UserUpdateSchema(b)
      [] e = "taxProfile" -> TaxProfileUpdateSchema(b)
      [] e = "invoice" -> InvoiceUpdateSchema(b)

C15_Step ==
    \A e \in Entities :
        (/\ ran' = Handler(e, "update")
         /\ NamesNothing(e, req')
         /\ ValidUpdate(e, req'.in.body)) =>
            res'.status = 404 /\ store' = store

(* C15: for accounts, tax profiles and invoices alike, an update with a      *)
(* valid body of a well-formed id that names no stored row is answered 404   *)
(* and leaves the store unchanged                                            *)
C15_UpdateMissing404 == [][C15_Step]_vars

(* the request body has no value for the field *)
Omits(b, f) ==
    \/ f \notin DOMAIN b
    \/ IF f \in {"userId", "taxProfileId", "issuedAt"} THEN b[f] = Absent
       ELSE b[f] = Undefined

C16_Step ==
    \A e \in Entities :
        (ran' = Handler(e, "update") /\ res'.status = 200) =>
            LET n == DigitsVal(req'.in.id)
                old == CHOOSE x \in Rows(e) : x.id = n
                new == CHOOSE x \in Rows(e)' : x.id = n
            IN  /\ \A f \in DOMAIN old : Omits(req'.in.body, f) => new[f] = old[f]
                /\ Rows(e)' \ {new} = Rows(e) \ {old}
                /\ \A o \in Entities \ {e} : Rows(o)' = Rows(o)

(* C16: a successful update of an account, tax profile or invoice leaves     *)
(* every field that the body omits with the value it had (issuedAt of an     *)
(* invoice and the password hash of an account among them) and modifies no   *)
(* other row                                                                 *)
C16_UpdateTouchesOnlyGiven == [][C16_Step]_vars

C17_Step ==
    \A e \in Entities : \A verb \in {"get", "update", "remove"} :
        ran' = Handler(e, verb) =>
            /\ ~WellFormedId(req'.in.id) => res'.status = 400 /\ store' = store
            /\ (/\ NamesNothing(e, req')
                /\ verb = "update" => ValidUpdate(e, req'.in.body)) =>
                    res'.status = 404

(* C17: get, update and delete of an account, tax profile or invoice answer  *)
(* 400, with the store untouched, when the id is not the numeral of a        *)
(* positive integer, and 404 when it is one that names no stored row (the    *)
(* body of an update being valid)                                            *)
C17_BadIdVersusMissing == [][C17_Step]_vars

---------------------------------------------------------------------------
(* The response envelope (C18), checked under Spec                           *)

(* success and timestamp, and data on success or else error, never both *)
Envelope(b) ==
    /\ {"success", "timestamp"} \subseteq DOMAIN b
    /\ b.success \in BOOLEAN
    /\ IF b.success
       THEN "data" \in DOMAIN b /\ "error" \notin DOMAIN b
       ELSE "error" \in DOMAIN b /\ "data" \notin DOMAIN b

(* C18: every response that has a body, the 401 of the gate included,        *)
(* carries success and timestamp and exactly one of data (on success) and    *)
(* error (on failure)                                                        *)
C18_EveryBodyEnveloped == res.body # NoBody => Envelope(res.body)

---------------------------------------------------------------------------
(* The lifetime of a token (C19, C20), checked under Spec                    *)

(* a token the service signed, unaltered *)
Genuine(t) == t.kind = "jwt" /\ t.sig = "valid"

(* C19: a token handed out by register or login carries the time of issue    *)
(* and the account's id; presented to a route behind the gate, in the        *)
(* Authorization header or in the access_token cookie, it lets the request   *)
(* through as that subject at every time before one hour after issue, and    *)
(* is refused with 401 at every time from then on                            *)
C19_TokenLifetime ==
    /\ res.setCookie.kind = "jwt" =>
          /\ Genuine(res.setCookie)
          /\ res.setCookie.iat = now
          /\ res.setCookie = res.body.data.token
          /\ res.setCookie.sub \in StoredIds(users)
    /\ (req.op \in ProtectedOps /\ Genuine(Carried(req))) =>
          IF now < Carried(req).iat + TokenTTL
          THEN ran \in ProtectedHandlers /\ reqUser.sub = Carried(req).sub
          ELSE ran = "none" /\ res.status = 401

(* a token issued an hour ago, still held in the cookie, was refused *)
C19_Witness ==
    /\ req.op = "GET /api/user"
    /\ ~req.authorization.present
    /\ Genuine(req.cookie)
    /\ now = req.cookie.iat + TokenTTL
    /\ res.status = 401

(* the client has logged out: its cookie is gone, and it still holds the     *)
(* token it was given in a response body                                     *)
LoggedOut == cookie.kind = "undefined" /\ Genuine(bearer)

C20_Step ==
    \* logout itself: 200 for a token that verifies, leaving the store and the
    \* token as they were, and otherwise 401 from the gate
    /\ (req'.op = "POST /api/auth/logout" /\ req' # req) =>
          IF Genuine(Carried(req')) /\ now' < Carried(req').iat + TokenTTL
          THEN /\ ran' = "auth.logout"
               /\ res'.status = 200
               /\ store' = store
               /\ bearer' = bearer
               /\ cookie'.kind = "undefined"
          ELSE /\ ran' = "none"
               /\ res'.status = 401
               /\ store' = store
               /\ client' = client
    \* after it: the token in the Authorization header still passes
    /\ (/\ LoggedOut'
        /\ req'.op \in ProtectedOps
        /\ req'.authorization.present
        /\ Carried(req') = bearer') =>
          IF now' < bearer'.iat + TokenTTL
          THEN ran' \in ProtectedHandlers /\ reqUser'.sub = bearer'.sub
          ELSE ran' = "none" /\ res'.status = 401

(* C20: logout is answered 200 and changes nothing on the server when the    *)
(* request carries a token that verifies, and is refused with 401 when it    *)
(* does not; after a logout the same token, presented in the Authorization   *)
(* header, still passes the gate as the same subject until one hour after    *)
(* its issue                                                                 *)
C20_LogoutRevokesNothing == [][C20_Step]_vars

(* after a logout, a stored invoice is read with the token in the header *)
C20_Witness ==
    /\ LoggedOut
    /\ req.op = "GET /api/invoices/:id"
    /\ req.authorization.present
    /\ Carried(req) = bearer
    /\ ran = "invoice.get"
    /\ reqUser.sub = bearer.sub
    /\ res.status = 200


Given(value) == value # Undefined /\ value # <<>>
NotDecimal(text) == \E k \in DOMAIN text : ~IsDigit(text[k]) /\ text[k] # "."

MalformedFilter ==
    \/ /\ ran = "taxProfile.list"
       /\ Given(req.in.userId)
       /\ ~WellFormedId(req.in.userId)
    \/ /\ ran = "invoice.list"
       /\ \/ Given(req.in.minAmount) /\ NotDecimal(req.in.minAmount)
          \/ Given(req.in.maxAmount) /\ NotDecimal(req.in.maxAmount)

(* C26: every list request that passes the gate gets one response and the  *)
(* process lives on; a malformed filter value, a userId of the tax profile *)
(* list that is no positive integer or a minAmount or maxAmount of the     *)
(* invoice list that is no decimal number, is answered 400                 *)
C26_ListAlwaysAnswered ==
    ran \in ListHandlers =>
        /\ res.status # 0
        /\ Alive
        /\ MalformedFilter => res.status = 400


OwnersStored ==
    /\ \A p \in taxProfiles : \E u \in users : u.id = p.userId
    /\ \A i \in invoices : \E p \in taxProfiles : p.id = i.taxProfileId

Tables == <<users, taxProfiles, invoices>>
Named(field) == field # Absent /\ ~field.nan

(* the request being answered names an owner that is not stored *)
NamesMissingOwner ==
    \/ /\ ran' \in {"taxProfile.create", "taxProfile.update"}
       /\ Named(IF ran' = "taxProfile.create" THEN req'.in.userId
                 ELSE req'.in.body.userId)
       /\ \A u \in users :
             u.id # (IF ran' = "taxProfile.create" THEN req'.in.userId
                     ELSE req'.in.body.userId).v
    \/ /\ ran' \in {"invoice.create", "invoice.update"}
       /\ Named(IF ran' = "invoice.create" THEN req'.in.taxProfileId
                 ELSE req'.in.body.taxProfileId)
       /\ \A p \in taxProfiles :
             p.id # (IF ran' = "invoice.create" THEN req'.in.taxProfileId
                     ELSE req'.in.body.taxProfileId).v

C28_Step ==
    Idle /\ NamesMissingOwner => res'.status >= 400 /\ Tables' = Tables

(* C28: in every reachable state every stored tax profile names a stored   *)
(* account and every stored invoice a stored tax profile, whatever was     *)
(* created, updated or deleted; a create or an update that names an owner  *)
(* not stored fails and leaves the three tables as they were               *)
C28_ReferentialIntegrity == []OwnersStored /\ [][C28_Step]_vars

(* an update moving a stored tax profile to an account that does not exist *)
(* was refused                                                             *)
C28_Witness ==
    /\ ran = "taxProfile.update"
    /\ req.in.body.userId = Num(Stranger)
    /\ res.status = 400
    /\ \E p \in taxProfiles : p.id = 1


Orphaned(t) == Genuine(t) /\ t.sub \notin StoredIds(users)

(* C30: the gate decides from the token and the clock alone: a token       *)
(* issued for an account that has since been deleted passes every          *)
(* protected route as that account until it expires, the handler runs,     *)
(* and from the expiry on it is refused                                    *)
C30_TokenOutlivesAccount ==
    req.op \in ProtectedOps /\ Orphaned(Carried(req)) =>
        IF now < Carried(req).exp
        THEN /\ ran \in ProtectedHandlers
             /\ reqUser.sub = Carried(req).sub
             /\ res.status # 401
        ELSE ran = "none" /\ res.status = 401

(* with the token of the deleted first account, an invoice was created    *)
(* on a tax profile that now belongs to another account                    *)
C30_Witness ==
    /\ Orphaned(Carried(req))
    /\ Carried(req).sub = 1
    /\ ran = "invoice.create"
    /\ res.status = 201
    /\ invoices # {}

=============================================================================
